---------------------------- MODULE Spec2Model ----------------------------
(***************************************************************************)
(* ink-prompt MultilineInput: the text buffer algebra (TextBuffer.ts), the *)
(* word-aware visual wrapping and cursor navigation, and the undo/redo     *)
(* history engine of the useTextInput hook with its debounced batching of  *)
(* single-character inserts.                                               *)
(*                                                                         *)
(* A string is a sequence of one-character strings; a Buffer is a record   *)
(* [lines |-> sequence of strings]; a Cursor is [line, column], 0-indexed  *)
(* as in the source.  An optional value (width?, startState?) is the empty *)
(* sequence when undefined and a one-element sequence when defined.        *)
(***************************************************************************)
EXTENDS Integers, Sequences, FiniteSets, TLC

(***************************************************************************)
(* Bounds of the model.                                                    *)
(***************************************************************************)
\* longest flattened text an edit may produce
MaxLen == 3
\* number of operations in one behaviour of Spec
MaxSteps == 3
\* number of operations in one behaviour of SpecHistory
MaxTrace == 5
\* number of operations in one behaviour of SpecLimit
MaxLimitSteps == 7
\* largest historyLimit prop
MaxHistoryLimit == 2
\* largest width prop
MaxWidth == 2
\* longest flattened text of a buffer in SpecBuffer
MaxText == 4
\* number of operations in one behaviour of SpecEdits
MaxEdits == 3

NL == "\n"
CR == "\r"
SP == " "
BACKSLASH == "\\"

(***************************************************************************)
(* JavaScript primitives used by the source.                               *)
(***************************************************************************)
Min(a, b) == IF a <= b THEN a ELSE b
Max(a, b) == IF a >= b THEN a ELSE b

\* String.prototype.slice(from, to) / Array.prototype.slice(from, to), from, to >= 0
slice(s, from, to) ==
  LET f == Min(from, Len(s))
      t == Min(to, Len(s))
  IN  IF f >= t THEN << >> ELSE SubSeq(s, f + 1, t)

\* slice(from), from >= 0
sliceFrom(s, from) == slice(s, from, Len(s))

\* Array.prototype.slice(-n): the last n elements; slice(-0) is slice(0), the whole array
sliceLast(s, n) ==
  IF n = 0 THEN s
  ELSE IF n > 0 THEN sliceFrom(s, Max(Len(s) - n, 0))
  ELSE sliceFrom(s, -n)

\* String.prototype.split('\n'): always at least one piece
RECURSIVE split(_)
split(text) ==
  IF \A i \in 1..Len(text) : text[i] # NL
  THEN << text >>
  ELSE LET i == CHOOSE j \in 1..Len(text) :
                  text[j] = NL /\ \A k \in 1..(j - 1) : text[k] # NL
       IN  << SubSeq(text, 1, i - 1) >> \o split(SubSeq(text, i + 1, Len(text)))

\* Array.prototype.join('\n')
RECURSIVE join(_)
join(lines) ==
  IF Len(lines) = 0 THEN << >>
  ELSE IF Len(lines) = 1 THEN lines[1]
  ELSE lines[1] \o << NL >> \o join(Tail(lines))

\* text.replace(/\r\n/g, '\n')
RECURSIVE replaceCRLF(_)
replaceCRLF(text) ==
  IF Len(text) = 0 THEN << >>
  ELSE IF Len(text) >= 2 /\ text[1] = CR /\ text[2] = NL
       THEN << NL >> \o replaceCRLF(SubSeq(text, 3, Len(text)))
       ELSE << text[1] >> \o replaceCRLF(Tail(text))

\* text.replace(/\r/g, '\n')
replaceCR(text) == [i \in 1..Len(text) |-> IF text[i] = CR THEN NL ELSE text[i]]

(***************************************************************************)
(* TextBuffer.ts: the buffer algebra.                                      *)
(***************************************************************************)
\* createBuffer that takes a newline at the end of the text as the end of the last line,
\* not as the start of an empty one
createBuffer_noTrailingLine(text) ==
  IF Len(text) = 0 THEN [lines |-> << << >> >>]
  ELSE IF text[Len(text)] = NL /\ Len(text) > 1
       THEN [lines |-> split(SubSeq(text, 1, Len(text) - 1))]
       ELSE [lines |-> split(text)]

createBuffer(text) ==
  IF Len(text) = 0 THEN [lines |-> << << >> >>]
  ELSE [lines |-> split(text)]

\* insertText whose cursor column always adds the length of the last inserted piece to
\* the old column, also after a newline
insertText_columnAdds(buffer, cursor, text) ==
  IF Len(text) = 0 THEN [buffer |-> buffer, cursor |-> cursor]
  ELSE
    LET line == cursor.line
        column == cursor.column
        currentLine == buffer.lines[line + 1]
        fullText == slice(currentLine, 0, column) \o text \o sliceFrom(currentLine, column)
        textLines == split(text)
    IN  [buffer |-> [lines |-> slice(buffer.lines, 0, line) \o split(fullText)
                                 \o sliceFrom(buffer.lines, line + 1)],
         cursor |-> [line |-> line + (Len(textLines) - 1),
                     column |-> column + Len(textLines[Len(textLines)])]]

insertText(buffer, cursor, text) ==
  IF Len(text) = 0 THEN [buffer |-> buffer, cursor |-> cursor]
  ELSE
    LET line == cursor.line
        column == cursor.column
        currentLine == buffer.lines[line + 1]
        beforeCursor == slice(currentLine, 0, column)
        afterCursor == sliceFrom(currentLine, column)
        fullText == beforeCursor \o text \o afterCursor
        newLines == split(fullText)
        textLines == split(text)
        cursorLine == line + (Len(textLines) - 1)
        cursorColumn == IF Len(textLines) = 1
                        THEN column + Len(text)
                        ELSE Len(textLines[Len(textLines)])
        resultLines == slice(buffer.lines, 0, line) \o newLines
                         \o sliceFrom(buffer.lines, line + 1)
    IN  [buffer |-> [lines |-> resultLines],
         cursor |-> [line |-> cursorLine, column |-> cursorColumn]]

\* a splice one element too far: removes the element after index at
removeAt_after(lines, at) == slice(lines, 0, at + 1) \o sliceFrom(lines, at + 2)

\* Array.prototype.splice(at, 1) on a copy: remove the element at 0-based index at
removeAt(lines, at) == slice(lines, 0, at) \o sliceFrom(lines, at + 1)

\* a backspace that never joins lines: nothing happens at column 0
deleteChar_noMerge(buffer, cursor) ==
  IF cursor.column = 0 THEN [buffer |-> buffer, cursor |-> cursor]
  ELSE LET currentLine == buffer.lines[cursor.line + 1]
           newLine == slice(currentLine, 0, cursor.column - 1)
                        \o sliceFrom(currentLine, cursor.column)
       IN  [buffer |-> [lines |-> [buffer.lines EXCEPT ![cursor.line + 1] = newLine]],
            cursor |-> [line |-> cursor.line, column |-> cursor.column - 1]]

deleteChar(buffer, cursor) ==
  LET line == cursor.line
      column == cursor.column
  IN  IF line = 0 /\ column = 0 THEN [buffer |-> buffer, cursor |-> cursor]
      ELSE IF column = 0 THEN
        LET previousLine == buffer.lines[line]
            currentLine == buffer.lines[line + 1]
            mergedLine == previousLine \o currentLine
            newLines == removeAt([buffer.lines EXCEPT ![line] = mergedLine], line)
        IN  [buffer |-> [lines |-> newLines],
             cursor |-> [line |-> line - 1, column |-> Len(previousLine)]]
      ELSE
        LET currentLine == buffer.lines[line + 1]
            newLine == slice(currentLine, 0, column - 1) \o sliceFrom(currentLine, column)
        IN  [buffer |-> [lines |-> [buffer.lines EXCEPT ![line + 1] = newLine]],
             cursor |-> [line |-> line, column |-> column - 1]]

\* a forward delete that never joins lines: nothing happens at the end of a line
deleteCharForward_noMerge(buffer, cursor) ==
  LET currentLine == buffer.lines[cursor.line + 1]
  IN  IF cursor.column >= Len(currentLine) THEN [buffer |-> buffer, cursor |-> cursor]
      ELSE [buffer |-> [lines |-> [buffer.lines EXCEPT ![cursor.line + 1] =
                          slice(currentLine, 0, cursor.column)
                            \o sliceFrom(currentLine, cursor.column + 1)]],
            cursor |-> cursor]

deleteCharForward(buffer, cursor) ==
  LET line == cursor.line
      column == cursor.column
      currentLine == buffer.lines[line + 1]
      lineCount == Len(buffer.lines)
  IN  IF line = lineCount - 1 /\ column >= Len(currentLine)
      THEN [buffer |-> buffer, cursor |-> cursor]
      ELSE IF column >= Len(currentLine) THEN
        LET nextLine == buffer.lines[line + 2]
            mergedLine == currentLine \o nextLine
            newLines == removeAt([buffer.lines EXCEPT ![line + 1] = mergedLine], line + 1)
        IN  [buffer |-> [lines |-> newLines], cursor |-> cursor]
      ELSE
        LET newLine == slice(currentLine, 0, column) \o sliceFrom(currentLine, column + 1)
        IN  [buffer |-> [lines |-> [buffer.lines EXCEPT ![line + 1] = newLine]],
             cursor |-> cursor]

\* insertNewLine that leaves the cursor at its column on the new line
insertNewLine_keepsColumn(buffer, cursor) ==
  LET line == cursor.line
      column == cursor.column
      currentLine == buffer.lines[line + 1]
      newLines == slice(buffer.lines, 0, line)
                    \o << slice(currentLine, 0, column), sliceFrom(currentLine, column) >>
                    \o sliceFrom(buffer.lines, line + 1)
  IN  [buffer |-> [lines |-> newLines],
       cursor |-> [line |-> line + 1, column |-> Min(column, Len(currentLine) - column)]]

insertNewLine(buffer, cursor) ==
  LET line == cursor.line
      column == cursor.column
      currentLine == buffer.lines[line + 1]
      beforeCursor == slice(currentLine, 0, column)
      afterCursor == sliceFrom(currentLine, column)
      newLines == slice(buffer.lines, 0, line) \o << beforeCursor, afterCursor >>
                    \o sliceFrom(buffer.lines, line + 1)
  IN  [buffer |-> [lines |-> newLines],
       cursor |-> [line |-> line + 1, column |-> 0]]

(***************************************************************************)
(* TextBuffer.ts: visual wrapping.  A VisualRowInfo is [start, length].    *)
(***************************************************************************)
\* a first-space scan: the index of the first space among remaining[0..i], -1 when none
findSplitIndex_first(remaining, i) ==
  IF \E j \in 0..i : remaining[j + 1] = SP
  THEN CHOOSE j \in 0..i : remaining[j + 1] = SP /\ \A k \in 0..(j - 1) : remaining[k + 1] # SP
  ELSE -1

\* the backward scan `for (i = safeWidth - 1; i >= 0; i--)` for a space: -1 when none
RECURSIVE findSplitIndex(_, _)
findSplitIndex(remaining, i) ==
  IF i < 0 THEN -1
  ELSE IF remaining[i + 1] = SP THEN i
  ELSE findSplitIndex(remaining, i - 1)

\* a wrapping loop that leaves the space it breaks at out of every row
RECURSIVE visualRowsLoop_dropSpace(_, _, _)
visualRowsLoop_dropSpace(remaining, offset, safeWidth) ==
  IF Len(remaining) = 0 THEN << >>
  ELSE
    LET splitIndex == findSplitIndex(remaining, safeWidth - 1)
        fits == Len(remaining) <= safeWidth
        chunkLength == IF fits THEN Len(remaining)
                       ELSE IF splitIndex # -1 THEN splitIndex
                       ELSE safeWidth
        consumed == IF ~fits /\ splitIndex # -1 THEN splitIndex + 1 ELSE chunkLength
    IN  << [start |-> offset, length |-> chunkLength] >>
          \o visualRowsLoop_dropSpace(sliceFrom(remaining, consumed), offset + consumed,
                                      safeWidth)

\* the body of the while loop of getVisualRows
RECURSIVE visualRowsLoop(_, _, _)
visualRowsLoop(remaining, offset, safeWidth) ==
  IF Len(remaining) = 0 THEN << >>
  ELSE
    LET splitIndex == findSplitIndex(remaining, safeWidth - 1)
        chunkLength == IF Len(remaining) <= safeWidth THEN Len(remaining)
                       ELSE IF splitIndex # -1 THEN splitIndex + 1
                       ELSE safeWidth
    IN  << [start |-> offset, length |-> chunkLength] >>
          \o visualRowsLoop(sliceFrom(remaining, chunkLength), offset + chunkLength, safeWidth)

\* getVisualRows that falls back to a width of 2 for a width below 1
getVisualRows_fallbackWidth(line, width) ==
  LET safeWidth == IF width < 1 THEN 2 ELSE width
  IN  IF Len(line) = 0 THEN << [start |-> 0, length |-> 0] >>
      ELSE visualRowsLoop(line, 0, safeWidth)

getVisualRows(line, width) ==
  LET safeWidth == Max(1, width)
  IN  IF Len(line) = 0 THEN << [start |-> 0, length |-> 0] >>
      ELSE visualRowsLoop(line, 0, safeWidth)

getVisualPosition(bufferColumn, line, width) ==
  LET rows == getVisualRows(line, width)
      n == Len(rows)
      \* first loop: the rows that contain the column, or the last row ending at it
      hit1 == {i \in 0..(n - 1) :
                 \/ /\ bufferColumn >= rows[i + 1].start
                    /\ bufferColumn < rows[i + 1].start + rows[i + 1].length
                 \/ /\ bufferColumn = rows[i + 1].start + rows[i + 1].length
                    /\ i = n - 1}
      \* second loop: the column at a wrap point
      hit2 == {i \in 0..(n - 1) :
                 /\ bufferColumn = rows[i + 1].start + rows[i + 1].length
                 /\ i < n - 1}
      first(S) == CHOOSE i \in S : \A j \in S : i <= j
  IN  IF hit1 # {} THEN
        LET i == first(hit1)
        IN  IF bufferColumn < rows[i + 1].start + rows[i + 1].length
            THEN [visualRow |-> i, visualCol |-> bufferColumn - rows[i + 1].start]
            ELSE [visualRow |-> i, visualCol |-> rows[i + 1].length]
      ELSE IF hit2 # {} THEN [visualRow |-> first(hit2) + 1, visualCol |-> 0]
      ELSE [visualRow |-> n - 1, visualCol |-> rows[n].length]

getVisualRowCount(line, width) == Len(getVisualRows(line, width))

\* visualToBufferColumn counting the visual column from the start of the line instead
\* of the start of the row
visualToBufferColumn_fromLineStart(visualRow, visualCol, line, width) ==
  LET rows == getVisualRows(line, width)
  IN  IF visualRow >= Len(rows) THEN Len(line)
      ELSE Min(visualCol, Len(line))

visualToBufferColumn(visualRow, visualCol, line, width) ==
  LET rows == getVisualRows(line, width)
  IN  IF visualRow >= Len(rows) THEN Len(line)
      ELSE Min(rows[visualRow + 1].start + visualCol, Len(line))

getVisualRowLength(line, visualRow, width) ==
  LET rows == getVisualRows(line, width)
  IN  IF visualRow >= Len(rows) THEN 0 ELSE rows[visualRow + 1].length

(***************************************************************************)
(* TextBuffer.ts: cursor navigation.  width is << >> (undefined) or <<w>>. *)
(***************************************************************************)
Directions == {"left", "right", "up", "down", "lineStart", "lineEnd"}

\* a moveCursor whose left and right stay on the cursor's line and whose up and down
\* go by buffer lines
moveCursor_withinLine(buffer, cursor, direction, width) ==
  LET line == cursor.line
      column == cursor.column
      currentLine == buffer.lines[line + 1]
  IN  CASE direction = "left" -> [line |-> line, column |-> Max(0, column - 1)]
        [] direction = "right" -> [line |-> line, column |-> Min(Len(currentLine), column + 1)]
        [] direction = "up" ->
             IF line > 0
             THEN [line |-> line - 1, column |-> Min(column, Len(buffer.lines[line]))]
             ELSE cursor
        [] direction = "down" ->
             IF line < Len(buffer.lines) - 1
             THEN [line |-> line + 1, column |-> Min(column, Len(buffer.lines[line + 2]))]
             ELSE cursor
        [] OTHER -> cursor

\* a moveCursor by buffer lines whose up on the first line goes to the start of the
\* line and whose down on the last line goes to its end
moveCursor_edgeJumps(buffer, cursor, direction, width) ==
  LET line == cursor.line
      column == cursor.column
      currentLine == buffer.lines[line + 1]
      lineCount == Len(buffer.lines)
  IN  CASE direction = "left" ->
             IF column > 0 THEN [line |-> line, column |-> column - 1]
             ELSE IF line > 0
                  THEN [line |-> line - 1, column |-> Len(buffer.lines[line])]
                  ELSE cursor
        [] direction = "right" ->
             IF column < Len(currentLine) THEN [line |-> line, column |-> column + 1]
             ELSE IF line < lineCount - 1 THEN [line |-> line + 1, column |-> 0]
                  ELSE cursor
        [] direction = "up" ->
             IF line > 0
             THEN [line |-> line - 1, column |-> Min(column, Len(buffer.lines[line]))]
             ELSE [line |-> 0, column |-> 0]
        [] direction = "down" ->
             IF line < lineCount - 1
             THEN [line |-> line + 1, column |-> Min(column, Len(buffer.lines[line + 2]))]
             ELSE [line |-> line, column |-> Len(currentLine)]
        [] OTHER -> cursor

moveCursor(buffer, cursor, direction, width) ==
  LET line == cursor.line
      column == cursor.column
      currentLine == buffer.lines[line + 1]
      lineCount == Len(buffer.lines)
  IN  CASE direction = "left" ->
             IF column > 0 THEN [line |-> line, column |-> column - 1]
             ELSE IF line > 0
                  THEN [line |-> line - 1, column |-> Len(buffer.lines[line])]
                  ELSE cursor
        [] direction = "right" ->
             IF column < Len(currentLine) THEN [line |-> line, column |-> column + 1]
             ELSE IF line < lineCount - 1 THEN [line |-> line + 1, column |-> 0]
                  ELSE cursor
        [] direction = "up" ->
             IF width # << >> THEN
               LET w == width[1]
                   pos == getVisualPosition(column, currentLine, w)
               IN  IF pos.visualRow > 0 THEN
                     LET targetVisualRow == pos.visualRow - 1
                         targetVisualRowLength ==
                           getVisualRowLength(currentLine, targetVisualRow, w)
                         targetVisualCol == Min(pos.visualCol, targetVisualRowLength)
                     IN  [line |-> line,
                          column |-> visualToBufferColumn(targetVisualRow, targetVisualCol,
                                                          currentLine, w)]
                   ELSE IF line > 0 THEN
                     LET prevLine == buffer.lines[line]
                         prevLineVisualRows == getVisualRowCount(prevLine, w)
                         targetVisualRow == prevLineVisualRows - 1
                         targetVisualRowLength ==
                           getVisualRowLength(prevLine, targetVisualRow, w)
                         targetVisualCol == Min(pos.visualCol, targetVisualRowLength)
                     IN  [line |-> line - 1,
                          column |-> visualToBufferColumn(targetVisualRow, targetVisualCol,
                                                          prevLine, w)]
                   ELSE cursor
             ELSE IF line > 0
                  THEN [line |-> line - 1, column |-> Min(column, Len(buffer.lines[line]))]
                  ELSE cursor
        [] direction = "down" ->
             IF width # << >> THEN
               LET w == width[1]
                   pos == getVisualPosition(column, currentLine, w)
                   currentLineVisualRows == getVisualRowCount(currentLine, w)
               IN  IF pos.visualRow < currentLineVisualRows - 1 THEN
                     LET targetVisualRow == pos.visualRow + 1
                         targetVisualRowLength ==
                           getVisualRowLength(currentLine, targetVisualRow, w)
                         targetVisualCol == Min(pos.visualCol, targetVisualRowLength)
                     IN  [line |-> line,
                          column |-> visualToBufferColumn(targetVisualRow, targetVisualCol,
                                                          currentLine, w)]
                   ELSE IF line < lineCount - 1 THEN
                     LET nextLine == buffer.lines[line + 2]
                         targetVisualRowLength == getVisualRowLength(nextLine, 0, w)
                         targetVisualCol == Min(pos.visualCol, targetVisualRowLength)
                     IN  [line |-> line + 1, column |-> Min(targetVisualCol, Len(nextLine))]
                   ELSE cursor
             ELSE IF line < lineCount - 1
                  THEN [line |-> line + 1, column |-> Min(column, Len(buffer.lines[line + 2]))]
                  ELSE cursor
        [] direction = "lineStart" -> [line |-> line, column |-> 0]
        [] direction = "lineEnd" -> [line |-> line, column |-> Len(currentLine)]
        [] OTHER -> cursor

(***************************************************************************)
(* TextBuffer.ts: flattening and offset <-> cursor conversion.             *)
(***************************************************************************)
getTextContent(buffer) ==
  IF Len(buffer.lines) = 1 /\ buffer.lines[1] = << >> THEN << >>
  ELSE join(buffer.lines)

\* the loop of getOffset: the sum of (length + 1) over the lines before `line`
RECURSIVE offsetOfLine(_, _)
offsetOfLine(buffer, line) ==
  IF line <= 0 THEN 0
  ELSE offsetOfLine(buffer, line - 1) + Len(buffer.lines[line]) + 1

\* getOffset that does not count the newline ending each preceding line
getOffset_noNewline(buffer, cursor) ==
  offsetOfLine(buffer, cursor.line) - cursor.line + cursor.column

getOffset(buffer, cursor) == offsetOfLine(buffer, cursor.line) + cursor.column

\* getCursor without the Math.max(0, ...) clamp of the column
RECURSIVE getCursorLoop_noClamp(_, _, _, _)
getCursorLoop_noClamp(buffer, offset, i, currentOffset) ==
  IF i >= Len(buffer.lines)
  THEN [line |-> Len(buffer.lines) - 1, column |-> Len(buffer.lines[Len(buffer.lines)])]
  ELSE
    LET lineLength == Len(buffer.lines[i + 1])
    IN  IF offset <= currentOffset + lineLength
        THEN [line |-> i, column |-> offset - currentOffset]
        ELSE IF i = Len(buffer.lines) - 1 THEN [line |-> i, column |-> lineLength]
        ELSE getCursorLoop_noClamp(buffer, offset, i + 1, currentOffset + lineLength + 1)

\* getCursor with the newline counted as part of its line: a non-last line accepts
\* only offsets before its end
RECURSIVE getCursorLoop_newlineInLine(_, _, _, _)
getCursorLoop_newlineInLine(buffer, offset, i, currentOffset) ==
  IF i >= Len(buffer.lines)
  THEN [line |-> Len(buffer.lines) - 1, column |-> Len(buffer.lines[Len(buffer.lines)])]
  ELSE
    LET lineLength == Len(buffer.lines[i + 1])
    IN  IF i = Len(buffer.lines) - 1 THEN
          IF offset <= currentOffset + lineLength
          THEN [line |-> i, column |-> Max(0, offset - currentOffset)]
          ELSE [line |-> i, column |-> lineLength]
        ELSE IF offset < currentOffset + lineLength
          THEN [line |-> i, column |-> Max(0, offset - currentOffset)]
          ELSE getCursorLoop_newlineInLine(buffer, offset, i + 1,
                                           currentOffset + lineLength + 1)

\* the loop of getCursor from line index i with the running currentOffset
RECURSIVE getCursorLoop(_, _, _, _)
getCursorLoop(buffer, offset, i, currentOffset) ==
  IF i >= Len(buffer.lines)
  THEN [line |-> Len(buffer.lines) - 1, column |-> Len(buffer.lines[Len(buffer.lines)])]
  ELSE
    LET lineLength == Len(buffer.lines[i + 1])
    IN  IF i = Len(buffer.lines) - 1 THEN
          IF offset <= currentOffset + lineLength
          THEN [line |-> i, column |-> Max(0, offset - currentOffset)]
          ELSE [line |-> i, column |-> lineLength]
        ELSE IF offset <= currentOffset + lineLength
          THEN [line |-> i, column |-> Max(0, offset - currentOffset)]
          ELSE getCursorLoop(buffer, offset, i + 1, currentOffset + lineLength + 1)

getCursor(buffer, offset) == getCursorLoop(buffer, offset, 0, 0)

(***************************************************************************)
(* TextRenderer.tsx: wrapLines, with its own copy of the wrapping loop.    *)
(* The running result r carries visualLines, the cursor's visual position  *)
(* and visualRowIndex.                                                     *)
(***************************************************************************)
\* a while loop that hard-wraps every row at safeWidth, ignoring spaces
RECURSIVE wrapLineLoop_naive(_, _, _, _, _, _, _)
wrapLineLoop_naive(r, line, remaining, offset, safeWidth, isCursorLine, column) ==
  IF Len(remaining) = 0 THEN r
  ELSE
    LET chunkLength == Min(safeWidth, Len(remaining))
        chunk == slice(remaining, 0, chunkLength)
        pushed == [r EXCEPT !.visualLines = Append(@, chunk)]
        placed ==
          IF ~isCursorLine THEN pushed
          ELSE IF column >= offset /\ column < offset + chunkLength
            THEN [pushed EXCEPT !.cursorVisualRow = r.visualRowIndex,
                                !.cursorVisualCol = column - offset]
          ELSE IF column = offset + chunkLength /\ offset + chunkLength = Len(line)
            THEN [pushed EXCEPT !.cursorVisualRow = r.visualRowIndex,
                                !.cursorVisualCol = chunkLength]
          ELSE pushed
    IN  wrapLineLoop_naive([placed EXCEPT !.visualRowIndex = @ + 1], line,
                           sliceFrom(remaining, chunkLength), offset + chunkLength,
                           safeWidth, isCursorLine, column)

\* the while loop over one non-empty line
RECURSIVE wrapLineLoop(_, _, _, _, _, _, _)
wrapLineLoop(r, line, remaining, offset, safeWidth, isCursorLine, column) ==
  IF Len(remaining) = 0 THEN r
  ELSE
    LET splitIndex == findSplitIndex(remaining, safeWidth - 1)
        chunkLength == IF Len(remaining) <= safeWidth THEN Len(remaining)
                       ELSE IF splitIndex # -1 THEN splitIndex + 1
                       ELSE safeWidth
        chunk == slice(remaining, 0, chunkLength)
        pushed == [r EXCEPT !.visualLines = Append(@, chunk)]
        placed ==
          IF ~isCursorLine THEN pushed
          ELSE IF column >= offset /\ column < offset + chunkLength
            THEN [pushed EXCEPT !.cursorVisualRow = r.visualRowIndex,
                                !.cursorVisualCol = column - offset]
          ELSE IF column = offset + chunkLength /\ offset + chunkLength = Len(line)
            THEN [pushed EXCEPT !.cursorVisualRow = r.visualRowIndex,
                                !.cursorVisualCol = chunkLength]
          ELSE pushed
    IN  wrapLineLoop([placed EXCEPT !.visualRowIndex = @ + 1], line,
                     sliceFrom(remaining, chunkLength), offset + chunkLength,
                     safeWidth, isCursorLine, column)

\* the for loop over the buffer lines, from lineIndex on
RECURSIVE wrapLinesLoop(_, _, _, _, _)
wrapLinesLoop(r, buffer, cursor, safeWidth, lineIndex) ==
  IF lineIndex >= Len(buffer.lines) THEN r
  ELSE
    LET line == buffer.lines[lineIndex + 1]
        isCursorLine == lineIndex = cursor.line
        r2 == IF Len(line) = 0
              THEN [r EXCEPT !.visualLines = Append(@, << >>),
                             !.cursorVisualRow = IF isCursorLine THEN r.visualRowIndex ELSE @,
                             !.cursorVisualCol = IF isCursorLine THEN 0 ELSE @,
                             !.visualRowIndex = @ + 1]
              ELSE wrapLineLoop(r, line, line, 0, safeWidth, isCursorLine, cursor.column)
    IN  wrapLinesLoop(r2, buffer, cursor, safeWidth, lineIndex + 1)

wrapLines(buffer, cursor, width) ==
  LET r == wrapLinesLoop([visualLines |-> << >>, cursorVisualRow |-> 0,
                          cursorVisualCol |-> 0, visualRowIndex |-> 0],
                         buffer, cursor, Max(1, width), 0)
  IN  [visualLines |-> r.visualLines,
       cursorVisualRow |-> r.cursorVisualRow,
       cursorVisualCol |-> r.cursorVisualCol]

(***************************************************************************)
(* KeyHandler.ts: boundary detection and the dispatch of handleKey for the *)
(* arrow keys and Return.  cursor and width are optional; onBoundaryArrow  *)
(* is TRUE when actions.onBoundaryArrow is set.  handleKey returns the     *)
(* action it calls, with its argument.                                     *)
(***************************************************************************)
\* the first row i with row.start <= column <= row.start + row.length, << >> when none
firstRowHolding(rows, column) ==
  LET hits == { i \in 0..(Len(rows) - 1) :
                  /\ column >= rows[i + 1].start
                  /\ column <= rows[i + 1].start + rows[i + 1].length }
  IN  IF hits = {} THEN << >>
      ELSE << CHOOSE i \in hits : \A j \in hits : i <= j >>

isAtLeftBoundary(cursor) == cursor.line = 0 /\ cursor.column = 0

isAtRightBoundary(buffer, cursor) ==
  LET lastLineIndex == Len(buffer.lines) - 1
  IN  cursor.line = lastLineIndex /\ cursor.column >= Len(buffer.lines[lastLineIndex + 1])

isAtTopBoundary(buffer, cursor, width) ==
  IF cursor.line > 0 THEN FALSE
  ELSE IF width # << >> THEN
    LET held == firstRowHolding(getVisualRows(buffer.lines[1], width[1]), cursor.column)
    IN  IF held # << >> THEN held[1] = 0 ELSE TRUE
  ELSE TRUE

isAtBottomBoundary(buffer, cursor, width) ==
  LET lastLineIndex == Len(buffer.lines) - 1
  IN  IF cursor.line < lastLineIndex THEN FALSE
      ELSE IF width # << >> THEN
        LET rows == getVisualRows(buffer.lines[lastLineIndex + 1], width[1])
            held == firstRowHolding(rows, cursor.column)
        IN  IF held # << >> THEN held[1] = Len(rows) - 1 ELSE TRUE
      ELSE TRUE

\* String.prototype.endsWith('\\')
endsWithBackslash(line) == Len(line) > 0 /\ line[Len(line)] = BACKSLASH

Keys == { "upArrow", "downArrow", "leftArrow", "rightArrow", "return" }

handleKey(key, buffer, onBoundaryArrow, cursor, width) ==
  LET given == cursor # << >>
      call(action, arg) == [action |-> action, arg |-> arg]
      arrow(direction, atBoundary) ==
        IF given /\ onBoundaryArrow /\ atBoundary
        THEN call("onBoundaryArrow", direction)
        ELSE call("moveCursor", direction)
  IN  CASE key = "upArrow" ->
             arrow("up", given /\ isAtTopBoundary(buffer, cursor[1], width))
        [] key = "downArrow" ->
             arrow("down", given /\ isAtBottomBoundary(buffer, cursor[1], width))
        [] key = "leftArrow" -> arrow("left", given /\ isAtLeftBoundary(cursor[1]))
        [] key = "rightArrow" ->
             arrow("right", given /\ isAtRightBoundary(buffer, cursor[1]))
        [] key = "return" ->
             IF given /\ endsWithBackslash(buffer.lines[cursor[1].line + 1])
             THEN call("deleteAndNewLine", "")
             ELSE call("submit", "")

(***************************************************************************)
(* useTextInput: the session.  Its React state is buffer, cursor,          *)
(* undoStack and redoStack; pendingInsertBatchRef is the ref holding the   *)
(* pending batch (startState, and whether a commit timer is armed); the    *)
(* props historyLimit and undoDebounceMs are fixed for a session; the      *)
(* width prop follows the terminal, so each moveCursor call closes over    *)
(* the width of its render.  mounted is FALSE once the effect cleanup has  *)
(* run.  timeouts counts the timeouts the hook has set with setTimeout     *)
(* that have neither fired nor been cleared; timerId of the ref says       *)
(* whether the timeout the ref points to is among them.                    *)
(* steps (operations still allowed) and hist (the operations run so far,   *)
(* each with the session state it started from; kept only when tracing)    *)
(* are history variables of the verification, not state of the program.    *)
(***************************************************************************)
VARIABLES buffer, cursor, undoStack, redoStack, pendingInsertBatchRef, timeouts,
          historyLimit, undoDebounceMs, mounted,
          steps, tracing, hist

vars == << buffer, cursor, undoStack, redoStack, pendingInsertBatchRef, timeouts,
           historyLimit, undoDebounceMs, mounted, steps, tracing, hist >>

\* the session state a handler of the current render closes over
Session ==
  [buffer |-> buffer, cursor |-> cursor, undoStack |-> undoStack,
   redoStack |-> redoStack, startState |-> pendingInsertBatchRef.startState,
   timerId |-> pendingInsertBatchRef.timerId, timeouts |-> timeouts]

HistoryState(b, c) == [buffer |-> b, cursor |-> c]

clearPendingInsertTimer(s) ==
  IF s.timerId THEN [s EXCEPT !.timerId = FALSE, !.timeouts = @ - 1] ELSE s

\* appendUndoState trimming from the wrong end: keeps the oldest historyLimit entries
appendUndoState_keepOldest(stack, state) ==
  LET newStack == Append(stack, state)
  IN  IF Len(newStack) > historyLimit THEN slice(newStack, 0, historyLimit)
      ELSE newStack

appendUndoState(stack, state) ==
  LET newStack == Append(stack, state)
  IN  IF Len(newStack) > historyLimit THEN sliceLast(newStack, historyLimit)
      ELSE newStack

\* commitPendingInsertBatch recording the state at commit time instead of startState
commitPendingInsertBatch_snapshotNow(s) ==
  IF s.startState = << >> THEN s
  ELSE [clearPendingInsertTimer(s) EXCEPT
          !.startState = << >>,
          !.undoStack = appendUndoState(s.undoStack, HistoryState(s.buffer, s.cursor))]

commitPendingInsertBatch(s) ==
  IF s.startState = << >> THEN s
  ELSE [clearPendingInsertTimer(s) EXCEPT
          !.startState = << >>,
          !.undoStack = appendUndoState(s.undoStack, s.startState[1])]

\* schedulePendingInsertCommit setting a new timeout without clearing the one before
schedulePendingInsertCommit_addsTimer(s) ==
  IF undoDebounceMs <= 0 THEN s
  ELSE [s EXCEPT !.timerId = TRUE, !.timeouts = @ + 1]

schedulePendingInsertCommit(s) ==
  IF undoDebounceMs <= 0 THEN s
  ELSE [clearPendingInsertTimer(s) EXCEPT !.timerId = TRUE, !.timeouts = @ + 1]

\* beginOrRefreshInsertBatch starting a batch without emptying redoStack
beginOrRefreshInsertBatch_keepsRedo(s, currentBuffer, currentCursor) ==
  schedulePendingInsertCommit(
    IF s.startState = << >>
    THEN [s EXCEPT !.startState = << HistoryState(currentBuffer, currentCursor) >>]
    ELSE s)

\* beginOrRefreshInsertBatch capturing a new snapshot on every batchable insert
beginOrRefreshInsertBatch_recapture(s, currentBuffer, currentCursor) ==
  schedulePendingInsertCommit(
    [s EXCEPT !.startState = << HistoryState(currentBuffer, currentCursor) >>,
              !.redoStack = << >>])

beginOrRefreshInsertBatch(s, currentBuffer, currentCursor) ==
  schedulePendingInsertCommit(
    IF s.startState = << >>
    THEN [s EXCEPT !.startState = << HistoryState(currentBuffer, currentCursor) >>,
                   !.redoStack = << >>]
    ELSE s)

\* a flush that drops the pending batch without recording it
flushPendingInsertBatch_dropsBatch(s) ==
  [clearPendingInsertTimer(s) EXCEPT !.startState = << >>]

\* a flush that leaves the pending batch alone
flushPendingInsertBatch_noop(s) == s

flushPendingInsertBatch(s) == commitPendingInsertBatch(s)

\* pushToHistory without clearing redoStack
pushToHistory_keepRedo(s, currentBuffer, currentCursor) ==
  [s EXCEPT !.undoStack = appendUndoState(s.undoStack,
                                          HistoryState(currentBuffer, currentCursor))]

pushToHistory(s, currentBuffer, currentCursor) ==
  [s EXCEPT !.undoStack = appendUndoState(s.undoStack,
                                          HistoryState(currentBuffer, currentCursor)),
            !.redoStack = << >>]

\* the normalisation of line endings at the head of insert
normalize(char) == replaceCR(replaceCRLF(char))

canBatchInsert(char) ==
  LET normalized == normalize(char)
  IN  undoDebounceMs > 0 /\ Len(normalized) = 1 /\ normalized # << NL >>

insert(s, char) ==
  LET normalized == normalize(char)
      s1 == IF canBatchInsert(char)
            THEN beginOrRefreshInsertBatch(s, s.buffer, s.cursor)
            ELSE pushToHistory(flushPendingInsertBatch(s), s.buffer, s.cursor)
      result == insertText(s.buffer, s.cursor, normalized)
  IN  [s1 EXCEPT !.buffer = result.buffer, !.cursor = result.cursor]

\* a delete that returns before recording history when there is nothing to delete
delete_skipsNoOp(s) ==
  IF s.cursor.line = 0 /\ s.cursor.column = 0 THEN s
  ELSE LET s1 == pushToHistory(flushPendingInsertBatch(s), s.buffer, s.cursor)
           result == deleteChar(s.buffer, s.cursor)
       IN  [s1 EXCEPT !.buffer = result.buffer, !.cursor = result.cursor]

delete(s) ==
  LET s1 == pushToHistory(flushPendingInsertBatch(s), s.buffer, s.cursor)
      result == deleteChar(s.buffer, s.cursor)
  IN  [s1 EXCEPT !.buffer = result.buffer, !.cursor = result.cursor]

deleteForward(s) ==
  LET s1 == pushToHistory(flushPendingInsertBatch(s), s.buffer, s.cursor)
      result == deleteCharForward(s.buffer, s.cursor)
  IN  [s1 EXCEPT !.buffer = result.buffer, !.cursor = result.cursor]

newLine(s) ==
  LET s1 == pushToHistory(flushPendingInsertBatch(s), s.buffer, s.cursor)
      result == insertNewLine(s.buffer, s.cursor)
  IN  [s1 EXCEPT !.buffer = result.buffer, !.cursor = result.cursor]

\* the backslash removed and the line broken by calling delete and then newLine, each
\* recording its own snapshot
deleteAndNewLine_twoActions(s) == newLine(delete(s))

deleteAndNewLine(s) ==
  LET s1 == pushToHistory(flushPendingInsertBatch(s), s.buffer, s.cursor)
      afterDelete == deleteChar(s.buffer, s.cursor)
      afterNewLine == insertNewLine(afterDelete.buffer, afterDelete.cursor)
  IN  [s1 EXCEPT !.buffer = afterNewLine.buffer, !.cursor = afterNewLine.cursor]

\* a moveCursor that records a history entry as the editing actions do
moveCursorAction_recordsHistory(s, direction, width) ==
  [pushToHistory(flushPendingInsertBatch(s), s.buffer, s.cursor) EXCEPT
     !.cursor = moveCursor(s.buffer, s.cursor, direction, width)]

moveCursorAction(s, direction, width) ==
  [flushPendingInsertBatch(s) EXCEPT
     !.cursor = moveCursor(s.buffer, s.cursor, direction, width)]

\* undo of a pending batch that also commits the batch to undoStack
undo_commitsBatch(s) ==
  IF s.startState # << >> THEN
    [clearPendingInsertTimer(s) EXCEPT
       !.startState = << >>,
       !.undoStack = Append(s.undoStack, s.startState[1]),
       !.redoStack = Append(s.redoStack, HistoryState(s.buffer, s.cursor)),
       !.buffer = s.startState[1].buffer,
       !.cursor = s.startState[1].cursor]
  ELSE IF Len(s.undoStack) = 0 THEN s
  ELSE
    [s EXCEPT !.redoStack = Append(s.redoStack, HistoryState(s.buffer, s.cursor)),
              !.buffer = s.undoStack[Len(s.undoStack)].buffer,
              !.cursor = s.undoStack[Len(s.undoStack)].cursor,
              !.undoStack = slice(s.undoStack, 0, Len(s.undoStack) - 1)]

undo(s) ==
  IF s.startState # << >> THEN
    [clearPendingInsertTimer(s) EXCEPT
       !.startState = << >>,
       !.redoStack = Append(s.redoStack, HistoryState(s.buffer, s.cursor)),
       !.buffer = s.startState[1].buffer,
       !.cursor = s.startState[1].cursor]
  ELSE IF Len(s.undoStack) = 0 THEN s
  ELSE
    LET previousState == s.undoStack[Len(s.undoStack)]
        newUndoStack == slice(s.undoStack, 0, Len(s.undoStack) - 1)
    IN  [s EXCEPT !.redoStack = Append(s.redoStack, HistoryState(s.buffer, s.cursor)),
                  !.buffer = previousState.buffer,
                  !.cursor = previousState.cursor,
                  !.undoStack = newUndoStack]

\* redo that does not append the pre-redo state to undoStack
redo_dropsCurrent(s) ==
  IF s.startState # << >> THEN s
  ELSE IF Len(s.redoStack) = 0 THEN s
  ELSE
    [s EXCEPT !.buffer = s.redoStack[Len(s.redoStack)].buffer,
              !.cursor = s.redoStack[Len(s.redoStack)].cursor,
              !.redoStack = slice(s.redoStack, 0, Len(s.redoStack) - 1)]

\* redo restoring the oldest entry of redoStack instead of the most recent
redo_oldest(s) ==
  IF s.startState # << >> THEN s
  ELSE IF Len(s.redoStack) = 0 THEN s
  ELSE
    [s EXCEPT !.undoStack = Append(s.undoStack, HistoryState(s.buffer, s.cursor)),
              !.buffer = s.redoStack[1].buffer,
              !.cursor = s.redoStack[1].cursor,
              !.redoStack = slice(s.redoStack, 0, Len(s.redoStack) - 1)]

redo(s) ==
  IF s.startState # << >> THEN s
  ELSE IF Len(s.redoStack) = 0 THEN s
  ELSE
    LET nextState == s.redoStack[Len(s.redoStack)]
        newRedoStack == slice(s.redoStack, 0, Len(s.redoStack) - 1)
    IN  [s EXCEPT !.undoStack = Append(s.undoStack, HistoryState(s.buffer, s.cursor)),
                  !.buffer = nextState.buffer,
                  !.cursor = nextState.cursor,
                  !.redoStack = newRedoStack]

\* the cursor at the end of a text, as the hook computes it from text.split('\n')
endCursor(text) ==
  LET lines == split(text)
  IN  [line |-> Len(lines) - 1, column |-> Len(lines[Len(lines)])]

setText(s, text) ==
  LET s1 == pushToHistory(flushPendingInsertBatch(s), s.buffer, s.cursor)
  IN  [s1 EXCEPT !.buffer = createBuffer(text), !.cursor = endCursor(text)]

setCursorOffset(s, offset) ==
  [flushPendingInsertBatch(s) EXCEPT !.cursor = getCursor(s.buffer, offset)]

\* a timeout whose callback does nothing
timerFire_noCallback(s) == [s EXCEPT !.timerId = FALSE, !.timeouts = @ - 1]

\* the setTimeout callback of schedulePendingInsertCommit, run when the timeout the
\* ref points to fires; a fired timeout is not armed
timerFire(s) ==
  commitPendingInsertBatch([s EXCEPT !.timerId = FALSE, !.timeouts = @ - 1])

\* the same callback run by a timeout the ref no longer points to
staleTimerFire(s) == commitPendingInsertBatch([s EXCEPT !.timeouts = @ - 1])

\* The session a second callback of the same render runs on after a first one left
\* s1: buffer and cursor are the values its closure captured at render (those of s),
\* while the ref and the queued functional undoStack updates are those of s1.
staleClosure(s, s1) == [s1 EXCEPT !.buffer = s.buffer, !.cursor = s.cursor]

\* delete and newLine each reading the state the previous call left
deleteNewLineSameDispatch_freshState(s) == newLine(delete(s))

\* delete() and then newLine() of one render called in one synchronous dispatch: the
\* state setters are batched, and of the two setBuffer and setCursor calls the later
\* one is the value of the next render
deleteNewLineSameDispatch(s) == newLine(staleClosure(s, delete(s)))

\* a cleanup that drops the batch and leaves its timer armed
teardown_keepsTimer(s) == [s EXCEPT !.startState = << >>]

\* the cleanup of the unmount effect
teardown(s) == [clearPendingInsertTimer(s) EXCEPT !.startState = << >>]

(***************************************************************************)
(* The inputs of the operations.                                           *)
(***************************************************************************)
\* texts given to insert: batchable characters, a newline, several characters,
\* the empty string, and texts with carriage returns
InsertTexts ==
  { << "a" >>, << SP >>, << NL >>, << "a", "b" >>, << >>, << CR >>, << CR, NL >> }

\* texts given to setText and as initialValue, one of them with a Windows line ending
Texts ==
  { << >>, << "a" >>, << "a", SP, "b" >>, << "a", NL >>, << NL, "b" >>, << "a", CR, NL >> }

\* offsets given to setCursorOffset
Offsets == (-1)..(MaxLen + 1)

\* the width prop: undefined, or an integer (0 is clamped to 1 by the wrapping)
Widths == { << >> } \cup { << w >> : w \in 0..MaxWidth }

DebounceMs == 200

(***************************************************************************)
(* Init: the state after the first render of useTextInput(props).          *)
(***************************************************************************)
InitSession(initialValue) ==
  /\ buffer = createBuffer(initialValue)
  /\ cursor = endCursor(initialValue)
  /\ undoStack = << >>
  /\ redoStack = << >>
  /\ pendingInsertBatchRef = [startState |-> << >>, timerId |-> FALSE]
  /\ timeouts = 0
  /\ mounted = TRUE
  /\ hist = << >>

Init ==
  /\ \E initialValue \in Texts : InitSession(initialValue)
  /\ historyLimit \in 1..MaxHistoryLimit
  /\ undoDebounceMs \in {0, DebounceMs}
  /\ steps = MaxSteps
  /\ tracing = FALSE

(***************************************************************************)
(* One callback of the hook, run to completion: op with argument arg takes *)
(* the session from Session to s2.                                         *)
(***************************************************************************)
Run(op, arg, s2) ==
  /\ steps > 0
  /\ Len(join(s2.buffer.lines)) <= MaxLen
  /\ buffer' = s2.buffer
  /\ cursor' = s2.cursor
  /\ undoStack' = s2.undoStack
  /\ redoStack' = s2.redoStack
  /\ pendingInsertBatchRef' = [startState |-> s2.startState, timerId |-> s2.timerId]
  /\ timeouts' = s2.timeouts
  /\ steps' = steps - 1
  /\ hist' = IF tracing THEN Append(hist, [op |-> op, arg |-> arg, pre |-> Session])
             ELSE hist
  /\ UNCHANGED << historyLimit, undoDebounceMs, tracing >>

\* a handler of the hook's return value, called by the mounted component
Step(op, arg, s2) ==
  /\ mounted
  /\ Run(op, arg, s2)

Insert(char) ==
  /\ Step("insert", char, insert(Session, char))
  /\ UNCHANGED mounted

Delete ==
  /\ Step("delete", << >>, delete(Session))
  /\ UNCHANGED mounted

DeleteForward ==
  /\ Step("deleteForward", << >>, deleteForward(Session))
  /\ UNCHANGED mounted

NewLine ==
  /\ Step("newLine", << >>, newLine(Session))
  /\ UNCHANGED mounted

DeleteAndNewLine ==
  /\ Step("deleteAndNewLine", << >>, deleteAndNewLine(Session))
  /\ UNCHANGED mounted

MoveCursor(direction, width) ==
  /\ Step("moveCursor", << direction >>, moveCursorAction(Session, direction, width))
  /\ UNCHANGED mounted

Undo ==
  /\ Step("undo", << >>, undo(Session))
  /\ UNCHANGED mounted

Redo ==
  /\ Step("redo", << >>, redo(Session))
  /\ UNCHANGED mounted

SetText(text) ==
  /\ Step("setText", text, setText(Session, text))
  /\ UNCHANGED mounted

SetCursorOffset(offset) ==
  /\ Step("setCursorOffset", << offset >>, setCursorOffset(Session, offset))
  /\ UNCHANGED mounted

\* a timeout fires: only one that was set and neither fired nor cleared can, mounted
\* or not; it is the one the ref points to or another one
TimerFire ==
  /\ timeouts > 0
  /\ \E own \in BOOLEAN :
       /\ own => pendingInsertBatchRef.timerId
       /\ ~own => timeouts > (IF pendingInsertBatchRef.timerId THEN 1 ELSE 0)
       /\ Run("timerFire", << >>,
              IF own THEN timerFire(Session) ELSE staleTimerFire(Session))
  /\ UNCHANGED mounted

\* the component unmounts
Teardown ==
  /\ Step("teardown", << >>, teardown(Session))
  /\ mounted' = FALSE

InsertAny == \E char \in InsertTexts : Insert(char)
MoveCursorAny == \E direction \in Directions, width \in Widths : MoveCursor(direction, width)
SetTextAny == \E text \in Texts : SetText(text)
SetCursorOffsetAny == \E offset \in Offsets : SetCursorOffset(offset)

Next ==
  \/ InsertAny
  \/ Delete
  \/ DeleteForward
  \/ NewLine
  \/ DeleteAndNewLine
  \/ MoveCursorAny
  \/ Undo
  \/ Redo
  \/ SetTextAny
  \/ SetCursorOffsetAny
  \/ TimerFire
  \/ Teardown

Spec == Init /\ [][Next]_vars

(***************************************************************************)
(* SpecHistory: the history engine under a recorded trace.  The session    *)
(* starts empty and runs a batchable insert, a multi-character insert, a   *)
(* delete, a cursor move, timer fires, undo, redo and teardown; hist       *)
(* records every operation with the state it started from.                 *)
(***************************************************************************)
HistTexts == { << "a" >>, << "a", "b" >> }

InitHistory ==
  /\ InitSession(<< >>)
  /\ historyLimit \in 1..MaxHistoryLimit
  /\ undoDebounceMs \in {0, DebounceMs}
  /\ steps = MaxTrace
  /\ tracing = TRUE

InsertHist == \E char \in HistTexts : Insert(char)
MoveCursorLeft == MoveCursor("left", << >>)

NextHistory ==
  \/ InsertHist
  \/ Delete
  \/ MoveCursorLeft
  \/ Undo
  \/ Redo
  \/ TimerFire
  \/ Teardown

SpecHistory == InitHistory /\ [][NextHistory]_vars

(***************************************************************************)
(* SpecLimit: batching disabled; single characters are typed into a fresh  *)
(* session and undone, under a recorded trace.                             *)
(***************************************************************************)
LimitTexts == { << "a" >>, << SP >> }

InitLimit ==
  /\ \E initialValue \in Texts : InitSession(initialValue)
  /\ historyLimit \in 1..MaxHistoryLimit
  /\ undoDebounceMs = 0
  /\ steps = MaxLimitSteps
  /\ tracing = TRUE

InsertLimit == \E char \in LimitTexts : Insert(char)

NextLimit ==
  \/ InsertLimit
  \/ Undo

SpecLimit == InitLimit /\ [][NextLimit]_vars

(***************************************************************************)
(* SpecEdits: every editing action of the session under a recorded trace,  *)
(* from an empty session, with batching on or off.                         *)
(***************************************************************************)
InitEdits ==
  /\ InitSession(<< >>)
  /\ historyLimit \in 1..MaxHistoryLimit
  /\ undoDebounceMs \in {0, DebounceMs}
  /\ steps = MaxEdits
  /\ tracing = TRUE

SetTextHist == \E text \in HistTexts : SetText(text)
SetCursorOffsetStart == SetCursorOffset(0)

NextEdits ==
  \/ InsertHist
  \/ Delete
  \/ DeleteForward
  \/ NewLine
  \/ DeleteAndNewLine
  \/ SetTextHist
  \/ MoveCursorLeft
  \/ SetCursorOffsetStart
  \/ Undo
  \/ Redo
  \/ TimerFire

SpecEdits == InitEdits /\ [][NextEdits]_vars

(***************************************************************************)
(* SpecBuffer: the pure functions of TextBuffer.ts and wrapLines, each     *)
(* applied once to every valid buffer and cursor with a text of at most    *)
(* MaxText characters; hist records the call and the state it was given.   *)
(***************************************************************************)
Chars == { "a", SP, NL }

\* the strings of at most n characters
Strings(n) == UNION { [1..k -> Chars] : k \in 0..n }

\* the cursors inside a buffer
ValidCursors(b) ==
  { c \in [line : 0..MaxText, column : 0..MaxText] :
      c.line < Len(b.lines) /\ c.column <= Len(b.lines[c.line + 1]) }

\* texts given to insertText
BufferTexts == Strings(2)

\* widths given to the wrapping: undefined where optional, zero and negative included
BufferWidths == (-1)..(MaxText + 1)

\* the optional width of moveCursor
OptionalBufferWidths == { << >> } \cup { << w >> : w \in BufferWidths }

\* offsets given to getCursor
BufferOffsets == (-1)..(MaxText + 1)

InitBuffer ==
  /\ \E text \in Strings(MaxText) : buffer = createBuffer(text)
  /\ cursor \in ValidCursors(buffer)
  /\ undoStack = << >>
  /\ redoStack = << >>
  /\ pendingInsertBatchRef = [startState |-> << >>, timerId |-> FALSE]
  /\ timeouts = 0
  /\ historyLimit = 1
  /\ undoDebounceMs = 0
  /\ mounted = TRUE
  /\ steps = 1
  /\ tracing = TRUE
  /\ hist = << >>

\* one call of a pure function: it is given (buffer, cursor) and returns (b2, c2)
Apply(op, arg, b2, c2) ==
  /\ steps > 0
  /\ Len(join(b2.lines)) <= MaxText
  /\ buffer' = b2
  /\ cursor' = c2
  /\ steps' = steps - 1
  /\ hist' = Append(hist, [op |-> op, arg |-> arg, pre |-> Session])
  /\ UNCHANGED << undoStack, redoStack, pendingInsertBatchRef, timeouts, historyLimit,
                  undoDebounceMs, tracing >>

ApplyInsertText(text) ==
  /\ Apply("insertText", text, insertText(buffer, cursor, text).buffer,
           insertText(buffer, cursor, text).cursor)
  /\ UNCHANGED mounted

ApplyDeleteChar ==
  /\ Apply("deleteChar", << >>, deleteChar(buffer, cursor).buffer,
           deleteChar(buffer, cursor).cursor)
  /\ UNCHANGED mounted

ApplyDeleteCharForward ==
  /\ Apply("deleteCharForward", << >>, deleteCharForward(buffer, cursor).buffer,
           deleteCharForward(buffer, cursor).cursor)
  /\ UNCHANGED mounted

ApplyInsertNewLine ==
  /\ Apply("insertNewLine", << >>, insertNewLine(buffer, cursor).buffer,
           insertNewLine(buffer, cursor).cursor)
  /\ UNCHANGED mounted

ApplyMoveCursor(direction, width) ==
  /\ Apply("moveCursor", [direction |-> direction, width |-> width], buffer,
           moveCursor(buffer, cursor, direction, width))
  /\ UNCHANGED mounted

ApplyGetCursor(offset) ==
  /\ Apply("getCursor", offset, buffer, getCursor(buffer, offset))
  /\ UNCHANGED mounted

\* getVisualRows (called on each line of the buffer) and wrapLines return a layout and
\* leave buffer and cursor alone
ApplyGetVisualRows(width) ==
  /\ Apply("getVisualRows", width, buffer, cursor)
  /\ UNCHANGED mounted

ApplyWrapLines(width) ==
  /\ Apply("wrapLines", width, buffer, cursor)
  /\ UNCHANGED mounted

NextBuffer ==
  \/ \E text \in BufferTexts : ApplyInsertText(text)
  \/ ApplyDeleteChar
  \/ ApplyDeleteCharForward
  \/ ApplyInsertNewLine
  \/ \E direction \in Directions, width \in OptionalBufferWidths :
       ApplyMoveCursor(direction, width)
  \/ \E offset \in BufferOffsets : ApplyGetCursor(offset)
  \/ \E width \in BufferWidths : ApplyGetVisualRows(width)
  \/ \E width \in BufferWidths : ApplyWrapLines(width)

SpecBuffer == InitBuffer /\ [][NextBuffer]_vars

(***************************************************************************)
(* SpecKeys: one key press handled by handleKey in every valid buffer and  *)
(* cursor over the characters a, backslash and newline.  The action it     *)
(* dispatches to runs on the session; onBoundaryArrow and submit belong to *)
(* the surrounding component and leave the session alone.                  *)
(***************************************************************************)
KeyChars == { "a", BACKSLASH, NL }

KeyStrings(n) == UNION { [1..k -> KeyChars] : k \in 0..n }

InitKeys ==
  /\ \E text \in KeyStrings(MaxText) : buffer = createBuffer(text)
  /\ cursor \in ValidCursors(buffer)
  /\ undoStack = << >>
  /\ redoStack = << >>
  /\ pendingInsertBatchRef = [startState |-> << >>, timerId |-> FALSE]
  /\ timeouts = 0
  /\ historyLimit = 1
  /\ undoDebounceMs = 0
  /\ mounted = TRUE
  /\ steps = 1
  /\ tracing = TRUE
  /\ hist = << >>

\* the session after the action that handleKey called
dispatch(call, s, width) ==
  CASE call.action = "moveCursor" -> moveCursorAction(s, call.arg, width)
    [] call.action = "deleteAndNewLine" -> deleteAndNewLine(s)
    [] OTHER -> s

HandleKey(key, cursorGiven, onBoundaryArrow, width) ==
  LET call == handleKey(key, buffer, onBoundaryArrow,
                        IF cursorGiven THEN << cursor >> ELSE << >>, width)
  IN  /\ mounted
      /\ steps > 0
      /\ \E s2 \in {dispatch(call, Session, width)} :
           /\ buffer' = s2.buffer
           /\ cursor' = s2.cursor
           /\ undoStack' = s2.undoStack
           /\ redoStack' = s2.redoStack
           /\ pendingInsertBatchRef' = [startState |-> s2.startState,
                                        timerId |-> s2.timerId]
           /\ timeouts' = s2.timeouts
      /\ steps' = steps - 1
      /\ hist' = Append(hist, [op |-> "handleKey",
                               arg |-> [key |-> key, cursorGiven |-> cursorGiven,
                                        onBoundaryArrow |-> onBoundaryArrow,
                                        width |-> width, call |-> call],
                               pre |-> Session])
      /\ UNCHANGED << historyLimit, undoDebounceMs, mounted, tracing >>

NextKeys ==
  \E key \in Keys, cursorGiven \in BOOLEAN, onBoundaryArrow \in BOOLEAN, width \in Widths :
    HandleKey(key, cursorGiven, onBoundaryArrow, width)

SpecKeys == InitKeys /\ [][NextKeys]_vars

(***************************************************************************)
(* SpecDispatch: dispatches on a session whose text is made of a and       *)
(* backslash.  A dispatch runs one callback of the current render, or      *)
(* delete() and newLine() of the same render one after the other.          *)
(***************************************************************************)
MaxDispatches == 3

DispatchTexts == { << >>, << "a" >>, << BACKSLASH >>, << "a", BACKSLASH >> }

DispatchChars == { << "a" >>, << BACKSLASH >> }

InitDispatch ==
  /\ \E initialValue \in DispatchTexts : InitSession(initialValue)
  /\ historyLimit \in 1..MaxHistoryLimit
  /\ undoDebounceMs \in {0, DebounceMs}
  /\ steps = MaxDispatches
  /\ tracing = TRUE

InsertDispatch == \E char \in DispatchChars : Insert(char)

DeleteNewLineSameDispatch ==
  /\ Step("deleteNewLineSameDispatch", << >>, deleteNewLineSameDispatch(Session))
  /\ UNCHANGED mounted

NextDispatch ==
  \/ InsertDispatch
  \/ Delete
  \/ NewLine
  \/ DeleteNewLineSameDispatch
  \/ MoveCursorLeft
  \/ TimerFire

SpecDispatch == InitDispatch /\ [][NextDispatch]_vars

(***************************************************************************)

(* SpecLive: the session of SpecHistory with the scheduling the runtime    *)
(* gives.  The caller makes finitely many calls (all steps but the last);  *)
(* a timeout that stays set fires (weak fairness of TimerFire), for which  *)
(* the last step of the run is kept.                                       *)
(***************************************************************************)
MaxLive == 4

InitLive ==
  /\ InitSession(<< >>)
  /\ historyLimit \in 1..MaxHistoryLimit
  /\ undoDebounceMs \in {0, DebounceMs}
  /\ steps = MaxLive
  /\ tracing = TRUE

\* the caller can still make a call
CallerRuns == steps > 1

NextLive ==
  \/ CallerRuns /\ InsertHist
  \/ CallerRuns /\ Delete
  \/ CallerRuns /\ MoveCursorLeft
  \/ CallerRuns /\ Undo
  \/ CallerRuns /\ Redo
  \/ CallerRuns /\ Teardown
  \/ TimerFire

SpecLive == InitLive /\ [][NextLive]_vars /\ WF_vars(TimerFire)

(***************************************************************************)

(* Reading the trace.                                                      *)
(***************************************************************************)
\* buffer and cursor of a session state
View(s) == HistoryState(s.buffer, s.cursor)

\* the n-th operation run (1-based) is op
OpAt(n, op) == n >= 1 /\ n <= Len(hist) /\ hist[n].op = op

\* the n-th operation run is a batchable insert
BatchedInsertAt(n) == OpAt(n, "insert") /\ canBatchInsert(hist[n].arg)

(***************************************************************************)
(* C1: in every state reachable from any initialValue by any sequence of   *)
(* session operations the buffer has at least one line and the cursor is   *)
(* inside it: 0 <= line < lineCount and 0 <= column <= length of its line. *)
(***************************************************************************)
C1_CursorInBuffer ==
  /\ Len(buffer.lines) >= 1
  /\ cursor.line >= 0
  /\ cursor.line < Len(buffer.lines)
  /\ cursor.column >= 0
  /\ cursor.column <= Len(buffer.lines[cursor.line + 1])

\* all operations of a behaviour have run, an undo among them, and the cursor
\* stands at the end of the first of two lines
C1_Witness ==
  /\ steps = 0
  /\ Len(redoStack) > 0
  /\ Len(buffer.lines) = 2
  /\ cursor = [line |-> 0, column |-> Len(buffer.lines[1])]
  /\ Len(buffer.lines[1]) > 0

(***************************************************************************)
(* C2: in every reachable state the undoStack holds at most historyLimit   *)
(* entries.  (Stated as claimed; redo appends to undoStack without         *)
(* trimming, so the model violates it.)                                    *)
(***************************************************************************)
C2_UndoStackBounded == Len(undoStack) <= historyLimit

(***************************************************************************)
(* Runs of batchable inserts in the trace.                                 *)
(***************************************************************************)
\* the first operation of the maximal run of consecutive batchable inserts ending at e
RunStart(e) ==
  CHOOSE i \in 1..e :
    /\ \A j \in i..e : BatchedInsertAt(j)
    /\ i = 1 \/ ~BatchedInsertAt(i - 1)

\* the trace ends with a run of batchable inserts, possibly a timer fire, and an undo:
\* the last insert of that run, or 0 when the trace does not end so
RunBeforeUndo ==
  LET n == Len(hist)
  IN  IF ~OpAt(n, "undo") THEN 0
      ELSE IF BatchedInsertAt(n - 1) THEN n - 1
      ELSE IF OpAt(n - 1, "timerFire") /\ BatchedInsertAt(n - 2) THEN n - 2
      ELSE 0

(***************************************************************************)
(* C3 (as claimed): with undoDebounceMs > 0, after k >= 1 consecutive      *)
(* single-character inserts with nothing between them, one undo (before or *)
(* after the timer fires) restores the buffer and cursor that held before  *)
(* the first of those inserts.  Violated: a redo issued while a batch is   *)
(* pending is a no-op that leaves the batch pending, so inserts after it   *)
(* continue the earlier batch.                                             *)
(***************************************************************************)
C3_Original ==
  RunBeforeUndo > 0 =>
    View(Session) = View(hist[RunStart(RunBeforeUndo)].pre)

(***************************************************************************)
(* C3 (amended): the same, for a run whose first insert starts with no     *)
(* batch pending.                                                          *)
(***************************************************************************)
C3_BatchUndoneInOneStep ==
  (RunBeforeUndo > 0 /\ hist[RunStart(RunBeforeUndo)].pre.startState = << >>) =>
    View(Session) = View(hist[RunStart(RunBeforeUndo)].pre)

\* a multi-character insert, two batched inserts, the timer fire and one undo:
\* the undo has removed both characters at once
C3_Witness ==
  /\ Len(hist) = 5
  /\ RunBeforeUndo = 3
  /\ RunStart(3) = 2
  /\ OpAt(4, "timerFire")
  /\ buffer = hist[2].pre.buffer
  /\ Len(join(hist[5].pre.buffer.lines)) = Len(join(buffer.lines)) + 2

(***************************************************************************)
(* C4: when a batch is pending, undo cancels the commit timer, restores    *)
(* the batch's captured snapshot, appends the pre-undo state to redoStack, *)
(* clears the pending batch and leaves undoStack unchanged, and the timer  *)
(* does not fire after it; with no batch pending and an empty undoStack,   *)
(* undo changes nothing.                                                   *)
(***************************************************************************)
C4_UndoOfPendingBatch ==
  LET n == Len(hist)
  IN  /\ OpAt(n, "undo") /\ hist[n].pre.startState # << >> =>
           /\ ~pendingInsertBatchRef.timerId
           /\ pendingInsertBatchRef.startState = << >>
           /\ View(Session) = hist[n].pre.startState[1]
           /\ redoStack = Append(hist[n].pre.redoStack, View(hist[n].pre))
           /\ undoStack = hist[n].pre.undoStack
      /\ OpAt(n, "undo") /\ hist[n].pre.startState = << >> /\ hist[n].pre.undoStack = << >> =>
           Session = hist[n].pre
      /\ OpAt(n, "timerFire") => ~OpAt(n - 1, "undo")

\* an undo has cancelled a pending batch of two characters while undoStack held an entry
C4_Witness ==
  /\ Len(hist) = 4
  /\ OpAt(4, "undo")
  /\ hist[4].pre.startState # << >>
  /\ hist[4].pre.timerId
  /\ BatchedInsertAt(2) /\ BatchedInsertAt(3)
  /\ Len(undoStack) = 1
  /\ Len(redoStack) = 1

(***************************************************************************)
(* C5: where undo is not a no-op (a batch is pending or undoStack is not   *)
(* empty), undo followed immediately by redo restores the buffer and the   *)
(* cursor that held before the undo.                                       *)
(***************************************************************************)
C5_UndoThenRedo ==
  LET n == Len(hist)
  IN  (/\ OpAt(n, "redo")
       /\ OpAt(n - 1, "undo")
       /\ (hist[n - 1].pre.startState # << >> \/ Len(hist[n - 1].pre.undoStack) > 0))
      => View(Session) = View(hist[n - 1].pre)

\* a committed batch of two characters has been undone and redone
C5_Witness ==
  /\ Len(hist) = 5
  /\ BatchedInsertAt(1) /\ BatchedInsertAt(2)
  /\ OpAt(3, "timerFire")
  /\ OpAt(4, "undo")
  /\ OpAt(5, "redo")
  /\ Len(buffer.lines[1]) = 2
  /\ buffer # hist[5].pre.buffer

(***************************************************************************)
(* C6: with batching disabled and historyLimit = L, after n consecutive    *)
(* single-character inserts into a fresh session, each of the first        *)
(* min(n, L) undos changes the state and restores the state before the     *)
(* most recent insert not yet undone, and every further undo leaves buffer *)
(* and cursor unchanged (at the text after the first n - L inserts when    *)
(* n > L, at the initial state when n <= L).                               *)
(***************************************************************************)
\* the trace is n single-character inserts followed only by undos, at least one
InsertsThenUndos(n) ==
  /\ n >= 1
  /\ n < Len(hist)
  /\ \A i \in 1..n : OpAt(i, "insert") /\ Len(hist[i].arg) = 1
  /\ \A i \in (n + 1)..Len(hist) : OpAt(i, "undo")

C6_HistoryLimit ==
  \A n \in 1..Len(hist) :
    (undoDebounceMs = 0 /\ InsertsThenUndos(n)) =>
      LET m == Len(hist) - n
          effective == Min(n, historyLimit)
      IN  /\ View(Session) = View(hist[n - Min(m, effective) + 1].pre)
          /\ m <= effective => View(Session) # View(hist[n + m].pre)
          /\ m > effective => View(Session) = View(hist[n + m].pre)

\* historyLimit 2, three inserts and three undos: the third undo changed nothing and
\* the text is the one after the first insert
C6_Witness ==
  /\ historyLimit = 2
  /\ Len(hist) = 6
  /\ InsertsThenUndos(3)
  /\ View(Session) = View(hist[2].pre)
  /\ View(Session) = View(hist[6].pre)
  /\ View(Session) # View(hist[1].pre)

(***************************************************************************)
(* The editing actions applied to a session state.                         *)
(***************************************************************************)
\* P holds of the result of every non-batchable editing action run in state s:
\* multi-character, newline and other non-batchable inserts, delete, deleteForward,
\* newLine, deleteAndNewLine, setText
AfterNonBatchableEdits(s, P(_)) ==
  /\ \A char \in InsertTexts : ~canBatchInsert(char) => P(insert(s, char))
  /\ P(delete(s))
  /\ P(deleteForward(s))
  /\ P(newLine(s))
  /\ P(deleteAndNewLine(s))
  /\ \A text \in Texts : P(setText(s, text))

\* P holds of the result of every editing action run in state s
AfterEditingActions(s, P(_)) ==
  /\ AfterNonBatchableEdits(s, P)
  /\ \A char \in InsertTexts : canBatchInsert(char) => P(insert(s, char))

\* an operation can run next: the hook is mounted and the run has steps left
CanStep == mounted /\ steps > 0

\* the newest k entries of a stack (all of it when it has no more)
NewestUpTo(stack, k) ==
  IF Len(stack) > k THEN SubSeq(stack, Len(stack) - k + 1, Len(stack)) ELSE stack

(***************************************************************************)
(* C7: immediately after any editing action (insert of any text, batched   *)
(* or not, delete, deleteForward, newLine, deleteAndNewLine, setText) the  *)
(* redoStack is empty, so a redo issued next is a no-op.  Stated of every  *)
(* editing action in every state where an operation can run, and of the    *)
(* inserts and deletes recorded in the trace.                              *)
(***************************************************************************)
C7_EditClearsRedo ==
  /\ CanStep =>
       AfterEditingActions(Session, LAMBDA x : x.redoStack = << >> /\ redo(x) = x)
  /\ (OpAt(Len(hist), "insert") \/ OpAt(Len(hist), "delete")) =>
       redoStack = << >> /\ redo(Session) = Session

\* two edits were undone (redoStack held two states) and a delete then emptied redoStack
C7_Witness ==
  /\ Len(hist) = 5
  /\ OpAt(3, "undo") /\ OpAt(4, "undo")
  /\ OpAt(5, "delete")
  /\ Len(hist[5].pre.redoStack) = 2
  /\ redoStack = << >>

(***************************************************************************)
(* C8 (as claimed): if a batch is pending when a non-batchable editing     *)
(* action runs, the batch is cleared, the two newest entries of undoStack  *)
(* are the batch's captured snapshot and then the action's pre-action      *)
(* snapshot, the first undo afterwards reverts only that action and the    *)
(* second undo reverts the whole batch.  Violated with historyLimit = 1:   *)
(* the action's snapshot evicts the batch's.                               *)
(***************************************************************************)
C8_Original ==
  (CanStep /\ pendingInsertBatchRef.startState # << >>) =>
    AfterNonBatchableEdits(Session, LAMBDA x :
      /\ x.startState = << >>
      /\ Len(x.undoStack) >= 2
      /\ x.undoStack[Len(x.undoStack) - 1] = pendingInsertBatchRef.startState[1]
      /\ x.undoStack[Len(x.undoStack)] = View(Session)
      /\ View(undo(x)) = View(Session)
      /\ View(undo(undo(x))) = pendingInsertBatchRef.startState[1])

(***************************************************************************)
(* C8 (amended): if a batch is pending when a non-batchable editing action *)
(* runs, the batch and its timer are cleared and undoStack gains first the *)
(* batch's captured snapshot and then the action's pre-action snapshot,    *)
(* each append evicting the oldest entries beyond historyLimit; the first  *)
(* undo afterwards reverts only that action, and the second undo reverts   *)
(* the whole batch when historyLimit >= 2.                                 *)
(***************************************************************************)
C8_FlushThenRecord ==
  (CanStep /\ pendingInsertBatchRef.startState # << >>) =>
    AfterNonBatchableEdits(Session, LAMBDA x :
      /\ x.startState = << >>
      /\ ~x.timerId
      /\ x.undoStack =
           NewestUpTo(undoStack \o << pendingInsertBatchRef.startState[1], View(Session) >>,
                      historyLimit)
      /\ View(undo(x)) = View(Session)
      /\ historyLimit >= 2 => View(undo(undo(x))) = pendingInsertBatchRef.startState[1])

\* a delete ran while a batch was pending on a non-empty undoStack; the first undo
\* reverted the delete and the second the batch
C8_Witness ==
  /\ Len(hist) = 5
  /\ historyLimit = 2
  /\ OpAt(1, "insert")
  /\ BatchedInsertAt(2)
  /\ OpAt(3, "delete")
  /\ hist[3].pre.startState # << >>
  /\ OpAt(4, "undo") /\ OpAt(5, "undo")
  /\ View(hist[5].pre) = View(hist[3].pre)
  /\ View(Session) = hist[3].pre.startState[1]
  /\ View(Session) = View(hist[2].pre)

\* the batchable characters given to insert
BatchableChars == { t \in InsertTexts : canBatchInsert(t) }

\* the single characters given to insert, newline and carriage return included
SingleChars == { t \in InsertTexts : Len(t) = 1 }

\* the last five operations run are: batchable insert, timer fire, single-character
\* insert, undo, undo
InsertFireInsertUndoUndo ==
  LET n == Len(hist)
  IN  /\ n >= 5
      /\ BatchedInsertAt(n - 4)
      /\ OpAt(n - 3, "timerFire")
      /\ OpAt(n - 2, "insert") /\ Len(hist[n - 2].arg) = 1
      /\ OpAt(n - 1, "undo")
      /\ OpAt(n, "undo")

C10_Redo ==
  LET n == Len(hist)
      r == redo(Session)
  IN  /\ IF pendingInsertBatchRef.startState # << >> \/ redoStack = << >>
         THEN r = Session
         ELSE /\ View(r) = redoStack[Len(redoStack)]
              /\ r.redoStack = SubSeq(redoStack, 1, Len(redoStack) - 1)
              /\ r.undoStack = Append(undoStack, View(Session))
      /\ OpAt(n, "redo") =>
           LET p == hist[n].pre
           IN  IF p.startState # << >> \/ p.redoStack = << >>
               THEN /\ buffer = p.buffer
                    /\ cursor = p.cursor
                    /\ undoStack = p.undoStack
                    /\ redoStack = p.redoStack
               ELSE /\ View(Session) = p.redoStack[Len(p.redoStack)]
                    /\ redoStack = SubSeq(p.redoStack, 1, Len(p.redoStack) - 1)
                    /\ undoStack = Append(p.undoStack, View(p))

\* two edits were undone and a redo restored the one undone last, leaving the other
\* on redoStack
C10_Witness ==
  /\ Len(hist) = 5
  /\ OpAt(3, "undo") /\ OpAt(4, "undo")
  /\ OpAt(5, "redo")
  /\ Len(hist[5].pre.redoStack) = 2
  /\ hist[5].pre.redoStack[1] # hist[5].pre.redoStack[2]
  /\ Len(redoStack) = 1
  /\ View(Session) = View(hist[4].pre)

(***************************************************************************)
(* C11: on teardown any pending commit timer is cancelled and the          *)
(* uncommitted batch is discarded without being appended to undoStack;     *)
(* after teardown the timer never fires and undoStack is never modified    *)
(* again: once unmounted, teardown is the last callback that ran, no timer *)
(* is armed, no batch is pending and undoStack is the one teardown found.  *)
(***************************************************************************)
C11_Teardown ==
  ~mounted =>
    LET n == Len(hist)
    IN  /\ OpAt(n, "teardown")
        /\ ~pendingInsertBatchRef.timerId
        /\ pendingInsertBatchRef.startState = << >>
        /\ undoStack = hist[n].pre.undoStack
        /\ timeouts = 0
        /\ commitPendingInsertBatch(Session) = Session

\* the hook was unmounted while a batch was pending with its timer armed, and steps
\* were left for the timer to fire in
C11_Witness ==
  /\ ~mounted
  /\ steps > 0
  /\ OpAt(Len(hist), "teardown")
  /\ hist[Len(hist)].pre.timerId
  /\ hist[Len(hist)].pre.startState # << >>
  /\ hist[Len(hist)].pre.undoStack # << >>
  /\ undoStack = hist[Len(hist)].pre.undoStack

(***************************************************************************)
(* C12: for every valid buffer and every valid cursor in it,               *)
(* getCursor(buffer, getOffset(buffer, cursor)) equals cursor, including   *)
(* cursors at column 0 of a non-first line, at the end of a non-last line  *)
(* and on empty lines.                                                     *)
(***************************************************************************)
C12_OffsetRoundTrip ==
  /\ getCursor(buffer, getOffset(buffer, cursor)) = cursor
  /\ (OpAt(1, "getCursor") /\ hist[1].arg = getOffset(hist[1].pre.buffer, hist[1].pre.cursor)) =>
       cursor = hist[1].pre.cursor

\* getCursor was given the offset of a cursor on an empty line that is neither the
\* first nor the last: column 0 of a non-first line and the end of a non-last line
C12_Witness ==
  /\ OpAt(1, "getCursor")
  /\ hist[1].arg = getOffset(hist[1].pre.buffer, hist[1].pre.cursor)
  /\ hist[1].pre.cursor.line > 0
  /\ hist[1].pre.cursor.line < Len(buffer.lines) - 1
  /\ buffer.lines[hist[1].pre.cursor.line + 1] = << >>
  /\ buffer.lines[1] # << >>
  /\ cursor = hist[1].pre.cursor

\* the concatenation of a sequence of strings
RECURSIVE concat(_)
concat(strings) ==
  IF strings = << >> THEN << >> ELSE Head(strings) \o concat(Tail(strings))

\* the slices of line that the rows describe
RowSlices(line, rows) ==
  [i \in 1..Len(rows) |-> slice(line, rows[i].start, rows[i].start + rows[i].length)]

\* the rows of getVisualRows(line, width) are contiguous from 0, cover the line and are
\* non-empty unless the line is empty
RowsPartition(line, width) ==
  LET rows == getVisualRows(line, width)
  IN  /\ Len(rows) >= 1
      /\ rows[1].start = 0
      /\ \A i \in 2..Len(rows) : rows[i].start = rows[i - 1].start + rows[i - 1].length
      /\ concat(RowSlices(line, rows)) = line
      /\ IF line = << >> THEN rows = << [start |-> 0, length |-> 0] >>
         ELSE \A i \in 1..Len(rows) : rows[i].length >= 1

(***************************************************************************)
(* C13: for every line and every width, the rows returned by getVisualRows *)
(* are contiguous and in order (the first starts at 0, each next starts at *)
(* the previous start + length), their slices concatenate to exactly the   *)
(* line, and every row has length >= 1 except that an empty line yields    *)
(* exactly one row of length 0.  Stated of every recorded call, which      *)
(* lays out each line of the buffer at the given width.                    *)
(***************************************************************************)
C13_RowsPartitionLine ==
  OpAt(1, "getVisualRows") =>
    \A i \in 1..Len(buffer.lines) : RowsPartition(buffer.lines[i], hist[1].arg)

\* getVisualRows was applied with width 2 to a line of three rows, the first broken
\* after a space and the second hard-wrapped
C13_Witness ==
  /\ OpAt(1, "getVisualRows")
  /\ hist[1].arg = 2
  /\ \E i \in 1..Len(buffer.lines) :
       /\ Len(getVisualRows(buffer.lines[i], 2)) = 3
       /\ getVisualRows(buffer.lines[i], 2)[1].length = 1
       /\ getVisualRows(buffer.lines[i], 2)[2].length = 2

\* the length the claim gives to the row built from the remainder rem at effective width w
RowLengthOf(rem, w) ==
  LET spaces == { j \in 1..w : rem[j] = SP }
  IN  IF Len(rem) <= w THEN Len(rem)
      ELSE IF spaces # {} THEN CHOOSE j \in spaces : \A k \in spaces : k <= j
      ELSE w

(***************************************************************************)
(* C14: for a non-empty line and effective width w = max(1, width),        *)
(* getVisualRows builds each row from the unconsumed remainder: if the     *)
(* remainder has at most w characters it is the final row; otherwise the   *)
(* row ends immediately after the last space among the remainder's first w *)
(* characters (space included) if there is one, and is exactly w           *)
(* characters otherwise; hence no row is longer than w.  Stated of every   *)
(* recorded call.                                                          *)
(***************************************************************************)
C14_WordAwareRows ==
  \A n \in 1..Len(buffer.lines) :
    LET line == buffer.lines[n]
        width == IF OpAt(1, "getVisualRows") THEN hist[1].arg ELSE 1
        w == Max(1, width)
        rows == getVisualRows(line, width)
    IN  (OpAt(1, "getVisualRows") /\ line # << >>) =>
          \A i \in 1..Len(rows) :
            LET consumed == IF i = 1 THEN 0 ELSE rows[i - 1].start + rows[i - 1].length
                rem == sliceFrom(line, consumed)
            IN  /\ rows[i].start = consumed
                /\ rows[i].length = RowLengthOf(rem, w)
                /\ rows[i].length <= w
                /\ (Len(rem) <= w) <=> (i = Len(rows))

\* getVisualRows was applied with width 3 to "  aa": two spaces fall within the first
\* three characters and the first row ends after the second one
C14_Witness ==
  /\ OpAt(1, "getVisualRows")
  /\ hist[1].arg = 3
  /\ buffer.lines = << << SP, SP, "a", "a" >> >>
  /\ getVisualRows(buffer.lines[1], 3) =
       << [start |-> 0, length |-> 2], [start |-> 2, length |-> 2] >>

\* the number of visual rows of the lines before line index l (0-based)
RECURSIVE RowsBefore(_, _, _)
RowsBefore(b, l, w) ==
  IF l <= 0 THEN 0 ELSE RowsBefore(b, l - 1, w) + getVisualRowCount(b.lines[l], w)

\* the cursor's visual row counted across all logical lines, and its visual column
GlobalVisualRow(b, c, w) ==
  RowsBefore(b, c.line, w) + getVisualPosition(c.column, b.lines[c.line + 1], w).visualRow

VisualColumn(b, c, w) == getVisualPosition(c.column, b.lines[c.line + 1], w).visualCol

\* the lengths of all visual rows of the buffer, in order
AllRowLengths(b, w) ==
  concat([l \in 1..Len(b.lines) |->
            [i \in 1..getVisualRowCount(b.lines[l], w) |->
               getVisualRows(b.lines[l], w)[i].length]])

\* moveCursor was applied with direction d and a width
MovedWithWidth(d) ==
  /\ OpAt(1, "moveCursor")
  /\ hist[1].arg.direction = d
  /\ hist[1].arg.width # << >>

(***************************************************************************)
(* C15: with a width supplied, every moveCursor up/down that is not a      *)
(* no-op lands on the visually adjacent row: the cursor's visual row index *)
(* (rows of the preceding lines plus its row in its own line, a column at  *)
(* a wrap point belonging to the next row) decreases (up) or increases     *)
(* (down) by exactly 1 and its visual column becomes min(previous visual   *)
(* column, length of the target row); the move is a no-op only on the      *)
(* first visual row of the first line (up) or the last visual row of the   *)
(* last line (down).                                                       *)
(***************************************************************************)
C15_VisualRowMove ==
  \A d \in {"up", "down"} :
    MovedWithWidth(d) =>
      LET w == hist[1].arg.width[1]
          p == hist[1].pre
          delta == IF d = "up" THEN -1 ELSE 1
          row == GlobalVisualRow(p.buffer, p.cursor, w)
          lengths == AllRowLengths(p.buffer, w)
          target == row + delta
      IN  IF cursor = p.cursor
          THEN IF d = "up" THEN row = 0 ELSE row = Len(lengths) - 1
          ELSE /\ GlobalVisualRow(buffer, cursor, w) = target
               /\ VisualColumn(buffer, cursor, w) =
                    Min(VisualColumn(p.buffer, p.cursor, w), lengths[target + 1])

\* the visual lines that getVisualRows describes for the whole buffer, in order
NavigationVisualLines(b, w) ==
  concat([l \in 1..Len(b.lines) |-> RowSlices(b.lines[l], getVisualRows(b.lines[l], w))])

(***************************************************************************)
(* C16: rendering and cursor navigation use the same wrapping: for every   *)
(* valid buffer, cursor and width, wrapLines' visualLines are, line by     *)
(* line and in order, exactly the slices described by getVisualRows, and   *)
(* wrapLines' (cursorVisualRow, cursorVisualCol) is (the number of visual  *)
(* rows of the preceding lines + the visual row getVisualPosition assigns  *)
(* to the cursor's column, the visual column it assigns).  Stated of every *)
(* recorded wrapLines call.                                                *)
(***************************************************************************)
C16_RenderMatchesNavigation ==
  OpAt(1, "wrapLines") =>
    LET width == hist[1].arg
        r == wrapLines(buffer, cursor, width)
    IN  /\ r.visualLines = NavigationVisualLines(buffer, width)
        /\ r.cursorVisualRow = GlobalVisualRow(buffer, cursor, width)
        /\ r.cursorVisualCol = VisualColumn(buffer, cursor, width)

\* wrapLines was applied with width 2 to a cursor at a wrap point of the second line, a
\* line that breaks after a space: the cursor is drawn at the start of the third row
C16_Witness ==
  /\ OpAt(1, "wrapLines")
  /\ hist[1].arg = 2
  /\ cursor = [line |-> 1, column |-> 1]
  /\ wrapLines(buffer, cursor, 2).visualLines = << << >>, << SP >>, << "a", "a" >> >>
  /\ wrapLines(buffer, cursor, 2).cursorVisualRow = 2
  /\ wrapLines(buffer, cursor, 2).cursorVisualCol = 0

\* handleKey was given the key with a cursor, onBoundaryArrow set and a width
ArrowWithBoundary(key) ==
  /\ OpAt(1, "handleKey")
  /\ hist[1].arg.key = key
  /\ hist[1].arg.cursorGiven
  /\ hist[1].arg.onBoundaryArrow
  /\ hist[1].arg.width # << >>

(***************************************************************************)
(* C17: with onBoundaryArrow set and a cursor and width supplied,          *)
(* handleKey hands an up (resp. down) arrow to onBoundaryArrow exactly     *)
(* when the cursor is on the first visual row of the first line (resp. the *)
(* last visual row of the last line), i.e. exactly when moveCursor(buffer, *)
(* cursor, up/down, width) would return the cursor unchanged; in every     *)
(* other case it calls moveCursor and not onBoundaryArrow.                 *)
(***************************************************************************)
C17_BoundaryArrow ==
  \A key \in {"upArrow", "downArrow"} :
    ArrowWithBoundary(key) =>
      LET p == hist[1].pre
          width == hist[1].arg.width
          direction == IF key = "upArrow" THEN "up" ELSE "down"
          row == GlobalVisualRow(p.buffer, p.cursor, width[1])
          boundaryRow == IF key = "upArrow" THEN 0
                         ELSE Len(AllRowLengths(p.buffer, width[1])) - 1
          handedOver == hist[1].arg.call = [action |-> "onBoundaryArrow", arg |-> direction]
          moved == hist[1].arg.call = [action |-> "moveCursor", arg |-> direction]
      IN  /\ handedOver <=> row = boundaryRow
          /\ handedOver <=> moveCursor(p.buffer, p.cursor, direction, width) = p.cursor
          /\ moved <=> ~handedOver

(***************************************************************************)
(* C18: deleteAndNewLine applied in state (b, c) yields exactly            *)
(* insertNewLine applied to the result of deleteChar(b, c), both computed  *)
(* from that single pre-state, and records exactly one snapshot of its own *)
(* (the pre-state (b, c), after flushing any pending batch); so one undo   *)
(* afterwards restores (b, c).  Stated of deleteAndNewLine run in every    *)
(* state where an operation can run, and of the recorded runs.             *)
(***************************************************************************)
C18_DeleteAndNewLine ==
  /\ CanStep =>
       LET x == deleteAndNewLine(Session)
           afterDelete == deleteChar(buffer, cursor)
           flushed == flushPendingInsertBatch(Session)
       IN  /\ View(x) = insertNewLine(afterDelete.buffer, afterDelete.cursor)
           /\ x.startState = << >>
           /\ x.undoStack =
                NewestUpTo(Append(flushed.undoStack, View(Session)), historyLimit)
           /\ View(undo(x)) = View(Session)
  /\ \A n \in 1..Len(hist) :
       OpAt(n, "deleteAndNewLine") =>
         LET p == hist[n].pre
             post == IF n = Len(hist) THEN Session ELSE hist[n + 1].pre
             afterDelete == deleteChar(p.buffer, p.cursor)
         IN  /\ View(post) = insertNewLine(afterDelete.buffer, afterDelete.cursor)
             /\ post.undoStack[Len(post.undoStack)] = View(p)
             /\ (n + 1 = Len(hist) /\ OpAt(n + 1, "undo")) => View(Session) = View(p)

\* deleteAndNewLine ran after the character typed last with a batch pending, and the
\* undo that followed brought that character back
C18_Witness ==
  /\ Len(hist) = 3
  /\ BatchedInsertAt(1)
  /\ OpAt(2, "deleteAndNewLine")
  /\ hist[2].pre.startState # << >>
  /\ hist[3].pre.buffer = [lines |-> << << >>, << >> >>]
  /\ OpAt(3, "undo")
  /\ View(Session) = View(hist[2].pre)
  /\ buffer = [lines |-> << << "a" >> >>]

\* handleKey was given Return with a cursor
ReturnWithCursor ==
  /\ OpAt(1, "handleKey")
  /\ hist[1].arg.key = "return"
  /\ hist[1].arg.cursorGiven

\* lines2 is lines with the trailing backslash of line l (0-based) removed and that line
\* broken in two at some column
ContinuedOnNewLine(lines, l, lines2) ==
  LET line == lines[l + 1]
      stripped == slice(line, 0, Len(line) - 1)
  IN  \E k \in 0..Len(stripped) :
        lines2 = slice(lines, 0, l) \o << slice(stripped, 0, k), sliceFrom(stripped, k) >>
                   \o sliceFrom(lines, l + 1)

(***************************************************************************)
(* C19: when Enter is pressed with a cursor whose current line ends with a *)
(* backslash, for every cursor column on that line, the input is not       *)
(* submitted and the resulting buffer is the original with that trailing   *)
(* backslash removed and a line break inserted (the text continues on a    *)
(* new line); when the current line does not end with a backslash, Enter   *)
(* submits and the buffer is not edited by the key handler.  The line      *)
(* break is allowed at any column of the line.                             *)
(***************************************************************************)
C19_BackslashContinuation ==
  ReturnWithCursor =>
    LET p == hist[1].pre
        call == hist[1].arg.call
    IN  IF endsWithBackslash(p.buffer.lines[p.cursor.line + 1])
        THEN /\ call.action # "submit"
             /\ ContinuedOnNewLine(p.buffer.lines, p.cursor.line, buffer.lines)
        ELSE /\ call.action = "submit"
             /\ buffer = p.buffer

\* the number of newline characters in a text
Newlines(text) == Cardinality({ i \in 1..Len(text) : text[i] = NL })

\* the part of a text after its last newline (the whole text when it has none)
AfterLastNewline(text) ==
  LET at == { i \in 1..Len(text) : text[i] = NL }
  IN  IF at = {} THEN text
      ELSE SubSeq(text, (CHOOSE i \in at : \A j \in at : j <= i) + 1, Len(text))

(***************************************************************************)
(* C20: for every valid buffer and cursor and every text free of carriage  *)
(* returns: insertText with empty text returns buffer and cursor           *)
(* unchanged; otherwise getTextContent of the result equals the original   *)
(* flattened text with the text spliced in at getOffset(buffer, cursor),   *)
(* lines before cursor.line and after it are unchanged, and the new cursor *)
(* has line = cursor.line + (number of newlines in text) and column =      *)
(* length of the part of text after its last newline when text contains a  *)
(* newline, else cursor.column + text.length.                              *)
(***************************************************************************)
C20_InsertText ==
  OpAt(1, "insertText") =>
    LET text == hist[1].arg
        b == hist[1].pre.buffer
        c == hist[1].pre.cursor
        flat == getTextContent(b)
        at == getOffset(b, c)
        after == Len(b.lines) - c.line - 1
    IN  IF text = << >> THEN buffer = b /\ cursor = c
        ELSE /\ getTextContent(buffer) = slice(flat, 0, at) \o text \o sliceFrom(flat, at)
             /\ slice(buffer.lines, 0, c.line) = slice(b.lines, 0, c.line)
             /\ sliceFrom(buffer.lines, Len(buffer.lines) - after) = sliceFrom(b.lines, c.line + 1)
             /\ Len(buffer.lines) = Len(b.lines) + Newlines(text)
             /\ cursor.line = c.line + Newlines(text)
             /\ cursor.column = IF Newlines(text) > 0 THEN Len(AfterLastNewline(text))
                                ELSE c.column + Len(text)

\* a newline followed by "a" was inserted on the second of three lines
C20_Witness ==
  /\ OpAt(1, "insertText")
  /\ hist[1].arg = << NL, "a" >>
  /\ Len(hist[1].pre.buffer.lines) = 3
  /\ hist[1].pre.cursor = [line |-> 1, column |-> 0]
  /\ buffer.lines = << << >>, << >>, << "a" >>, << >> >>
  /\ cursor = [line |-> 2, column |-> 1]

(***************************************************************************)
(* C21: for every valid buffer and cursor and every single character ch,   *)
(* a newline included, deleteChar applied to the result of                 *)
(* insertText(buffer, cursor, ch) returns a buffer and a cursor equal to   *)
(* the originals.  Stated of every recorded insertText call with a text of *)
(* one character: a backspace on its result gives back the call's inputs.  *)
(***************************************************************************)
C21_InsertThenBackspace ==
  (OpAt(1, "insertText") /\ Len(hist[1].arg) = 1) =>
    deleteChar(buffer, cursor) =
      [buffer |-> hist[1].pre.buffer, cursor |-> hist[1].pre.cursor]

\* a newline was inserted in the middle of the first of two lines, and the
\* backspace joins the two halves again
C21_Witness ==
  /\ OpAt(1, "insertText")
  /\ hist[1].arg = << NL >>
  /\ hist[1].pre.buffer.lines = << << "a", "a" >>, << >> >>
  /\ hist[1].pre.cursor = [line |-> 0, column |-> 1]
  /\ buffer.lines = << << "a" >>, << "a" >>, << >> >>
  /\ cursor = [line |-> 1, column |-> 0]
  /\ deleteChar(buffer, cursor).buffer = hist[1].pre.buffer
  /\ deleteChar(buffer, cursor).cursor = hist[1].pre.cursor

\* a string without its character at 0-based index at
WithoutCharAt(text, at) == slice(text, 0, at) \o sliceFrom(text, at + 1)

(***************************************************************************)
(* C22: deleteChar returns buffer and cursor unchanged at (0, 0); at       *)
(* column 0 of a non-first line it replaces the previous and the current   *)
(* line by their concatenation and moves the cursor to (line - 1, former   *)
(* length of the previous line); otherwise it removes exactly the          *)
(* character at column - 1 of the current line and decrements the column.  *)
(* In every case but the first the flattened text loses exactly the one    *)
(* character before the cursor's flat offset and the offset decreases by   *)
(* one.  Stated of every recorded deleteChar call.                         *)
(***************************************************************************)
C22_DeleteChar ==
  OpAt(1, "deleteChar") =>
    LET b == hist[1].pre.buffer
        c == hist[1].pre.cursor
        flat == getTextContent(b)
        at == getOffset(b, c)
    IN  IF c.line = 0 /\ c.column = 0 THEN buffer = b /\ cursor = c
        ELSE /\ IF c.column = 0
                THEN /\ buffer.lines = slice(b.lines, 0, c.line - 1)
                                         \o << b.lines[c.line] \o b.lines[c.line + 1] >>
                                         \o sliceFrom(b.lines, c.line + 1)
                     /\ cursor = [line |-> c.line - 1, column |-> Len(b.lines[c.line])]
                ELSE /\ Len(buffer.lines) = Len(b.lines)
                     /\ \A i \in 1..Len(b.lines) :
                          buffer.lines[i] = IF i = c.line + 1
                                            THEN WithoutCharAt(b.lines[i], c.column - 1)
                                            ELSE b.lines[i]
                     /\ cursor = [line |-> c.line, column |-> c.column - 1]
             /\ getTextContent(buffer) = WithoutCharAt(flat, at - 1)
             /\ Len(getTextContent(buffer)) = Len(flat) - 1
             /\ getOffset(buffer, cursor) = at - 1

\* a backspace at column 0 of the middle one of three lines joined it to the first
C22_Witness ==
  /\ OpAt(1, "deleteChar")
  /\ hist[1].pre.buffer.lines = << << "a" >>, << SP >>, << >> >>
  /\ hist[1].pre.cursor = [line |-> 1, column |-> 0]
  /\ buffer.lines = << << "a", SP >>, << >> >>
  /\ cursor = [line |-> 0, column |-> 1]

(***************************************************************************)
(* C23: deleteCharForward returns buffer and cursor unchanged at the end   *)
(* of the last line; at the end of a non-last line it replaces the current *)
(* and the next line by their concatenation; otherwise it removes exactly  *)
(* the character at the cursor's column.  In every case the returned       *)
(* cursor equals the input cursor, and in every case but the first the     *)
(* flattened text loses exactly the one character at the cursor's flat     *)
(* offset.  Stated of every recorded deleteCharForward call.               *)
(***************************************************************************)
C23_DeleteCharForward ==
  OpAt(1, "deleteCharForward") =>
    LET b == hist[1].pre.buffer
        c == hist[1].pre.cursor
        flat == getTextContent(b)
        at == getOffset(b, c)
        atLineEnd == c.column = Len(b.lines[c.line + 1])
    IN  /\ cursor = c
        /\ IF atLineEnd /\ c.line = Len(b.lines) - 1 THEN buffer = b
           ELSE /\ IF atLineEnd
                   THEN buffer.lines = slice(b.lines, 0, c.line)
                                         \o << b.lines[c.line + 1] \o b.lines[c.line + 2] >>
                                         \o sliceFrom(b.lines, c.line + 2)
                   ELSE /\ Len(buffer.lines) = Len(b.lines)
                        /\ \A i \in 1..Len(b.lines) :
                             buffer.lines[i] = IF i = c.line + 1
                                               THEN WithoutCharAt(b.lines[i], c.column)
                                               ELSE b.lines[i]
                /\ getTextContent(buffer) = WithoutCharAt(flat, at)
                /\ Len(getTextContent(buffer)) = Len(flat) - 1
                /\ getOffset(buffer, cursor) = at

\* a forward delete at the end of the first of three lines joined the second to it
C23_Witness ==
  /\ OpAt(1, "deleteCharForward")
  /\ hist[1].pre.buffer.lines = << << "a" >>, << SP >>, << >> >>
  /\ hist[1].pre.cursor = [line |-> 0, column |-> 1]
  /\ buffer.lines = << << "a", SP >>, << >> >>
  /\ cursor = [line |-> 0, column |-> 1]

(***************************************************************************)
(* C24: for every valid buffer and every integer offset o, negative, in    *)
(* range or beyond the content, getCursor(buffer, o) is a valid cursor and *)
(* getOffset(buffer, getCursor(buffer, o)) = min(max(o, 0), length of the  *)
(* flattened text).  An offset equal to the end of a non-last line         *)
(* resolves to (that line, its length), never to (next line, 0), and an    *)
(* offset beyond the content resolves to the end of the last line.  Stated *)
(* of every recorded getCursor call.                                       *)
(***************************************************************************)
C24_GetCursor ==
  OpAt(1, "getCursor") =>
    LET o == hist[1].arg
        length == Len(getTextContent(buffer))
        last == Len(buffer.lines) - 1
    IN  /\ cursor \in ValidCursors(buffer)
        /\ getOffset(buffer, cursor) = Min(Max(o, 0), length)
        /\ \A l \in 0..(last - 1) :
             o = getOffset(buffer, [line |-> l, column |-> Len(buffer.lines[l + 1])]) =>
               cursor = [line |-> l, column |-> Len(buffer.lines[l + 1])]
        /\ o > length => cursor = [line |-> last, column |-> Len(buffer.lines[last + 1])]

\* getCursor was given the offset of the newline after the first line, which is
\* followed by a non-empty line
C24_Witness ==
  /\ OpAt(1, "getCursor")
  /\ buffer.lines = << << "a" >>, << "a", "a" >> >>
  /\ hist[1].arg = 1
  /\ cursor = [line |-> 0, column |-> 1]

(***************************************************************************)
(* C25: in every state reachable through the session operations, insert of *)
(* text containing CR LF or a lone CR and setText or initialValue with     *)
(* arbitrary text included, no buffer line contains a line terminator,     *)
(* neither a newline nor a carriage return.                                *)
(***************************************************************************)
C25_NoLineTerminators ==
  \A i \in 1..Len(buffer.lines) :
    \A k \in 1..Len(buffer.lines[i]) : buffer.lines[i][k] \notin { NL, CR }

\* every row of a non-empty line takes at least one character: the loop progresses
RowsProgress(line, rows) ==
  Len(line) > 0 => \A i \in 1..Len(rows) : rows[i].length >= 1

(***************************************************************************)
(* C26: for every line and every integer width <= 0, getVisualRows         *)
(* terminates and returns the same rows as for width 1; the same holds of  *)
(* the width-aware moveCursor up and down and of wrapLines, and no width   *)
(* makes the wrapping loop fail to progress.  Stated of every recorded     *)
(* getVisualRows, moveCursor and wrapLines call.                           *)
(***************************************************************************)
C26_NonPositiveWidth ==
  /\ OpAt(1, "getVisualRows") =>
       \A i \in 1..Len(buffer.lines) :
         /\ RowsProgress(buffer.lines[i], getVisualRows(buffer.lines[i], hist[1].arg))
         /\ hist[1].arg <= 0 =>
              getVisualRows(buffer.lines[i], hist[1].arg) = getVisualRows(buffer.lines[i], 1)
  /\ (/\ OpAt(1, "moveCursor")
      /\ hist[1].arg.direction \in { "up", "down" }
      /\ hist[1].arg.width # << >>
      /\ hist[1].arg.width[1] <= 0) =>
       cursor = moveCursor(hist[1].pre.buffer, hist[1].pre.cursor,
                           hist[1].arg.direction, << 1 >>)
  /\ OpAt(1, "wrapLines") =>
       /\ \A i \in 1..Len(wrapLines(buffer, cursor, hist[1].arg).visualLines) :
            Len(wrapLines(buffer, cursor, hist[1].arg).visualLines[i]) >= 1
              \/ << >> \in { buffer.lines[l] : l \in 1..Len(buffer.lines) }
       /\ hist[1].arg <= 0 =>
            wrapLines(buffer, cursor, hist[1].arg) = wrapLines(buffer, cursor, 1)

\* down with width 0 moved the cursor one character on inside a line of three
\* characters, as it does with width 1
C26_Witness ==
  /\ OpAt(1, "moveCursor")
  /\ hist[1].arg = [direction |-> "down", width |-> << 0 >>]
  /\ buffer.lines = << << "a", SP, "a" >> >>
  /\ hist[1].pre.cursor = [line |-> 0, column |-> 1]
  /\ cursor = [line |-> 0, column |-> 2]
  /\ getVisualRows(buffer.lines[1], 0) =
       << [start |-> 0, length |-> 1], [start |-> 1, length |-> 1],
          [start |-> 2, length |-> 1] >>

(***************************************************************************)
(* C27: moveCursor left and right ignore width and move by one position of *)
(* the flattened text: when the cursor is not at the start of the document *)
(* left decreases getOffset by exactly 1, when it is not at the end right  *)
(* increases it by exactly 1, and a right is undone by a left and a left   *)
(* by a right.  Stated of every recorded moveCursor left or right call,    *)
(* with and without a width.                                               *)
(***************************************************************************)
C27_LeftRightByOffset ==
  (OpAt(1, "moveCursor") /\ hist[1].arg.direction \in { "left", "right" }) =>
    LET c == hist[1].pre.cursor
        d == hist[1].arg.direction
        w == hist[1].arg.width
        at == getOffset(buffer, c)
        length == Len(getTextContent(buffer))
        back == IF d = "left" THEN "right" ELSE "left"
        moves == IF d = "left" THEN at > 0 ELSE at < length
    IN  /\ cursor = moveCursor(buffer, c, d, << >>)
        /\ cursor \in ValidCursors(buffer)
        /\ moves => /\ getOffset(buffer, cursor) = IF d = "left" THEN at - 1 ELSE at + 1
                    /\ moveCursor(buffer, cursor, back, w) = c
                    /\ moveCursor(buffer, cursor, back, << >>) = c

\* right at the end of the first line, with a width of 1, went to the start of the
\* second line, from where left comes back
C27_Witness ==
  /\ OpAt(1, "moveCursor")
  /\ hist[1].arg = [direction |-> "right", width |-> << 1 >>]
  /\ buffer.lines = << << "a", "a" >>, << "a" >> >>
  /\ hist[1].pre.cursor = [line |-> 0, column |-> 2]
  /\ cursor = [line |-> 1, column |-> 0]
  /\ moveCursor(buffer, cursor, "left", << 1 >>) = hist[1].pre.cursor

\* the calls of moveCursor the cursor cannot follow: left at the start of the document,
\* right at its end, and without a width up on the first line and down on the last
AtEdge(b, c, direction, width) ==
  \/ direction = "left" /\ c.line = 0 /\ c.column = 0
  \/ direction = "right" /\ c.line = Len(b.lines) - 1 /\ c.column = Len(b.lines[c.line + 1])
  \/ direction = "up" /\ c.line = 0 /\ width = << >>
  \/ direction = "down" /\ c.line = Len(b.lines) - 1 /\ width = << >>

\* moveCursor applied n times
RECURSIVE moveCursorTimes(_, _, _, _, _)
moveCursorTimes(b, c, direction, width, n) ==
  IF n = 0 THEN c
  ELSE moveCursorTimes(b, moveCursor(b, c, direction, width), direction, width, n - 1)

(***************************************************************************)
(* C28: moveCursor returns its input cursor for left at (0, 0), for right  *)
(* at the end of the last line (with any width), and for up on line 0 and  *)
(* down on the last line when no width is supplied; applying any of these  *)
(* repeatedly never changes the cursor.  Stated of every recorded          *)
(* moveCursor call of these kinds and of its repetitions.                  *)
(***************************************************************************)
C28_EdgeMovesStay ==
  (/\ OpAt(1, "moveCursor")
   /\ AtEdge(buffer, hist[1].pre.cursor, hist[1].arg.direction, hist[1].arg.width)) =>
    /\ cursor = hist[1].pre.cursor
    /\ \A n \in 1..MaxText :
         moveCursorTimes(buffer, cursor, hist[1].arg.direction, hist[1].arg.width, n) = cursor

\* up without a width in the middle of the first of two lines left the cursor there
C28_Witness ==
  /\ OpAt(1, "moveCursor")
  /\ hist[1].arg = [direction |-> "up", width |-> << >>]
  /\ buffer.lines = << << "a", "a" >>, << "a" >> >>
  /\ hist[1].pre.cursor = [line |-> 0, column |-> 1]
  /\ cursor = [line |-> 0, column |-> 1]

\* the last operation run, if any, is op
LastOp(op) == OpAt(Len(hist), op)

\* from session pre to session post only the cursor moved and a pending batch, if
\* any, was committed: its captured snapshot is the newest undoStack entry (the stack
\* cut to historyLimit) and no batch is pending
OnlyCursorAndCommit(pre, post) ==
  /\ post.buffer = pre.buffer
  /\ post.redoStack = pre.redoStack
  /\ post.startState = << >>
  /\ IF pre.startState = << >> THEN post.undoStack = pre.undoStack
     ELSE /\ post.undoStack = NewestUpTo(Append(pre.undoStack, pre.startState[1]), historyLimit)
          /\ ~post.timerId

(***************************************************************************)
(* C29: moveCursor and setCursorOffset never change buffer or redoStack,   *)
(* and change undoStack only by committing a pending batch (appending its  *)
(* captured snapshot and clearing the batch); with no batch pending they   *)
(* leave undoStack unchanged.  Stated of the moveCursor and                *)
(* setCursorOffset calls recorded last in the trace, and of every          *)
(* direction, width and offset in every state where an operation can run.  *)
(***************************************************************************)
C29_NavigationKeepsHistory ==
  /\ (LastOp("moveCursor") \/ LastOp("setCursorOffset")) =>
       OnlyCursorAndCommit(hist[Len(hist)].pre, Session)
  /\ CanStep =>
       /\ \A direction \in Directions, width \in Widths :
            OnlyCursorAndCommit(Session, moveCursorAction(Session, direction, width))
       /\ \A offset \in Offsets :
            OnlyCursorAndCommit(Session, setCursorOffset(Session, offset))

\* moveCursor ran while a batch was pending: the batch's snapshot is now on undoStack,
\* the buffer keeps the typed character and redoStack is as it was
C29_Witness ==
  /\ LastOp("moveCursor")
  /\ hist[Len(hist)].pre.startState # << >>
  /\ hist[Len(hist)].pre.undoStack = << >>
  /\ undoStack = << hist[Len(hist)].pre.startState[1] >>
  /\ pendingInsertBatchRef = [startState |-> << >>, timerId |-> FALSE]
  /\ buffer = hist[Len(hist)].pre.buffer
  /\ buffer.lines = << << "a" >> >>
  /\ cursor = [line |-> 0, column |-> 0]

\* in session state p the cursor is at the end of a line that ends in a backslash
AtTrailingBackslash(p) ==
  LET line == p.buffer.lines[p.cursor.line + 1]
  IN  /\ p.cursor.column = Len(line)
      /\ Len(line) > 0
      /\ line[Len(line)] = BACKSLASH

(***************************************************************************)
(* C30: if delete() and newLine() taken from the same render are both      *)
(* called within one synchronous dispatch, each computes from the same     *)
(* pre-dispatch buffer and cursor and the later write wins: the final      *)
(* buffer and cursor equal newLine applied alone to the pre-dispatch       *)
(* state, so the deletion is lost (a line ending in a backslash keeps its  *)
(* backslash and gains an empty line after it), whereas the two calls made *)
(* in separate dispatches remove the character and then split the line.    *)
(* Stated of the dispatch recorded last in the trace and of a delete       *)
(* followed by a newLine recorded last.                                    *)
(***************************************************************************)
C30_StaleDeleteThenNewLine ==
  /\ LastOp("deleteNewLineSameDispatch") =>
       LET p == hist[Len(hist)].pre
           l == p.cursor.line + 1
       IN  /\ View(Session) = View(newLine(p))
           /\ [buffer |-> buffer, cursor |-> cursor] = insertNewLine(p.buffer, p.cursor)
           /\ Len(getTextContent(buffer)) = Len(getTextContent(p.buffer)) + 1
           /\ AtTrailingBackslash(p) =>
                /\ buffer.lines[l] = p.buffer.lines[l]
                /\ buffer.lines[l + 1] = << >>
                /\ Len(buffer.lines) = Len(p.buffer.lines) + 1
  /\ (OpAt(Len(hist) - 1, "delete") /\ LastOp("newLine")) =>
       LET p == hist[Len(hist) - 1].pre
           l == p.cursor.line + 1
           afterDelete == deleteChar(p.buffer, p.cursor)
       IN  /\ hist[Len(hist)].pre.buffer = afterDelete.buffer
           /\ hist[Len(hist)].pre.cursor = afterDelete.cursor
           /\ [buffer |-> buffer, cursor |-> cursor] =
                insertNewLine(afterDelete.buffer, afterDelete.cursor)
           /\ AtTrailingBackslash(p) =>
                /\ buffer.lines[l] = slice(p.buffer.lines[l], 0, p.cursor.column - 1)
                /\ buffer.lines[l + 1] = << >>
                /\ cursor = [line |-> p.cursor.line + 1, column |-> 0]

\* delete() and newLine() of one render ran in one dispatch at the end of a\ : the
\* backslash is still there, followed by an empty line holding the cursor
C30_Witness ==
  /\ LastOp("deleteNewLineSameDispatch")
  /\ hist[Len(hist)].pre.buffer.lines = << << "a", BACKSLASH >> >>
  /\ hist[Len(hist)].pre.cursor = [line |-> 0, column |-> 2]
  /\ buffer.lines = << << "a", BACKSLASH >>, << >> >>
  /\ cursor = [line |-> 1, column |-> 0]

(***************************************************************************)
(* C31: in every reachable state there is at most one pending batch and at *)
(* most one armed commit timer, and a commit timer is armed if and only if *)
(* a pending batch (a captured start snapshot) exists; each further        *)
(* batchable insert replaces the timer instead of adding one and never     *)
(* replaces the captured snapshot.  The ref holds at most one snapshot;    *)
(* the timers are counted by timeouts, and the further batchable insert is *)
(* the one recorded last in the trace.                                     *)
(***************************************************************************)
C31_OneBatchOneTimer ==
  /\ Len(pendingInsertBatchRef.startState) <= 1
  /\ timeouts <= 1
  /\ (timeouts = 1) <=> (pendingInsertBatchRef.startState # << >>)
  /\ pendingInsertBatchRef.timerId <=> (timeouts = 1)
  /\ (BatchedInsertAt(Len(hist)) /\ hist[Len(hist)].pre.startState # << >>) =>
       /\ pendingInsertBatchRef.startState = hist[Len(hist)].pre.startState
       /\ hist[Len(hist)].pre.timeouts = 1
       /\ timeouts = 1

\* a third batchable insert in a row: one timer is armed and the snapshot is still the
\* empty buffer captured before the first
C31_Witness ==
  /\ Len(hist) = 3
  /\ \A n \in 1..3 : BatchedInsertAt(n)
  /\ hist[3].pre.startState # << >>
  /\ pendingInsertBatchRef.startState = << HistoryState(createBuffer(<< >>),
                                                         [line |-> 0, column |-> 0]) >>
  /\ pendingInsertBatchRef.timerId
  /\ timeouts = 1
  /\ buffer.lines = << << "a", "a", "a" >> >>

\* a batch is pending
Pending == pendingInsertBatchRef.startState # << >>

\* the operation run last ended a pending batch; its session before and the snapshot
\* the batch had captured
BatchEnded == Len(hist) >= 1 /\ hist[Len(hist)].pre.startState # << >> /\ ~Pending
BatchEndedBy(op) == BatchEnded /\ LastOp(op)

\* how the operation run last ended the batch: the timer or a flush without a
\* snapshot of its own appended the captured snapshot to undoStack, an editing action
\* appended it and then its own snapshot (undoStack keeps the newest historyLimit
\* entries), undo restored it, teardown discarded it
BatchOutcome ==
  LET pre == hist[Len(hist)].pre
      snapshot == pre.startState[1]
  IN  \/ /\ LastOp("timerFire") \/ LastOp("moveCursor")
         /\ undoStack = NewestUpTo(Append(pre.undoStack, snapshot), historyLimit)
         /\ buffer = pre.buffer
      \/ /\ LastOp("insert") \/ LastOp("delete")
         /\ undoStack = NewestUpTo(pre.undoStack \o << snapshot, View(pre) >>, historyLimit)
      \/ /\ LastOp("undo")
         /\ View(Session) = snapshot
         /\ undoStack = pre.undoStack
         /\ redoStack = Append(pre.redoStack, View(pre))
      \/ /\ LastOp("teardown")
         /\ undoStack = pre.undoStack
         /\ View(Session) = View(pre)
         /\ ~mounted

(***************************************************************************)
(* C32: a pending batch never stays pending forever: assuming an armed     *)
(* timer eventually fires unless it is re-armed or cancelled, and          *)
(* batchable inserts do not recur forever, every state with a pending      *)
(* batch is eventually followed by a state with no pending batch, in which *)
(* the batch's captured snapshot was appended to undoStack (timeout or     *)
(* flush), restored (undo) or discarded (teardown).                        *)
(***************************************************************************)
C32_BatchEnds ==
  /\ Pending ~> ~Pending
  /\ [](BatchEnded => BatchOutcome)
  /\ [](Pending => timeouts > 0)

\* the caller typed a character and made no further call: the timer fired and put the
\* snapshot of the empty buffer on undoStack
C32_Witness ==
  /\ Len(hist) = 2
  /\ BatchedInsertAt(1)
  /\ BatchEndedBy("timerFire")
  /\ steps = MaxLive - 2
  /\ undoStack = << HistoryState(createBuffer(<< >>), [line |-> 0, column |-> 0]) >>
  /\ buffer.lines = << << "a" >> >>

\* two sessions show the same buffer, cursor, undoStack and redoStack
SameVisible(x, y) ==
  /\ x.buffer = y.buffer
  /\ x.cursor = y.cursor
  /\ x.undoStack = y.undoStack
  /\ x.redoStack = y.redoStack

\* every action that flushes a pending batch gives the same visible result in
\* session s as in session t
FlushingActionsAgree(s, t) ==
  /\ \A char \in InsertTexts :
       ~canBatchInsert(char) => SameVisible(insert(s, char), insert(t, char))
  /\ SameVisible(delete(s), delete(t))
  /\ SameVisible(deleteForward(s), deleteForward(t))
  /\ SameVisible(newLine(s), newLine(t))
  /\ SameVisible(deleteAndNewLine(s), deleteAndNewLine(t))
  /\ \A text \in Texts : SameVisible(setText(s, text), setText(t, text))
  /\ \A direction \in Directions, width \in Widths :
       SameVisible(moveCursorAction(s, direction, width),
                   moveCursorAction(t, direction, width))
  /\ \A offset \in Offsets :
       SameVisible(setCursorOffset(s, offset), setCursorOffset(t, offset))

C34_PendingMeansNoRedo ==
  /\ Pending => redoStack = << >>
  /\ (BatchedInsertAt(Len(hist)) /\ hist[Len(hist)].pre.startState = << >>) =>
       Pending /\ redoStack = << >>
  /\ (LastOp("undo") /\ Len(redoStack) > Len(hist[Len(hist)].pre.redoStack)) => ~Pending
  /\ (LastOp("redo") /\ hist[Len(hist)].pre.startState # << >>) =>
       /\ hist[Len(hist)].pre.redoStack = << >>
       /\ View(Session) = View(hist[Len(hist)].pre)
       /\ undoStack = hist[Len(hist)].pre.undoStack

\* a batch was started by typing a character while redoStack held an undone state
C34_Witness ==
  /\ BatchedInsertAt(Len(hist))
  /\ hist[Len(hist)].pre.startState = << >>
  /\ hist[Len(hist)].pre.redoStack # << >>
  /\ Pending
  /\ redoStack = << >>

\* the cursor is on the first visual row of the buffer (the first line without a width)
OnFirstRow(b, c, width) ==
  /\ c.line = 0
  /\ width # << >> => getVisualPosition(c.column, b.lines[1], width[1]).visualRow = 0

\* the cursor is on the last visual row of the buffer (the last line without a width)
OnLastRow(b, c, width) ==
  /\ c.line = Len(b.lines) - 1
  /\ width # << >> =>
       getVisualPosition(c.column, b.lines[c.line + 1], width[1]).visualRow =
         getVisualRowCount(b.lines[c.line + 1], width[1]) - 1

(***************************************************************************)
(* C35: vertical navigation always makes progress: for every valid buffer, *)
(* cursor and width (or no width), every moveCursor up that is not a no-op *)
(* strictly decreases getOffset(buffer, cursor) and every moveCursor down  *)
(* that is not a no-op strictly increases it; hence repeating up (or down) *)
(* reaches a cursor where that move is a no-op after finitely many steps   *)
(* and the cursor can never cycle or get stuck at a wrap point.  Stated of *)
(* every recorded up and down call: the move changes the offset in its     *)
(* direction or is a no-op on the first (last) row, and as many            *)
(* repetitions as the text has positions end in a no-op.                   *)
(***************************************************************************)
C35_VerticalProgress ==
  (OpAt(1, "moveCursor") /\ hist[1].arg.direction \in { "up", "down" }) =>
    LET c == hist[1].pre.cursor
        d == hist[1].arg.direction
        w == hist[1].arg.width
        positions == Len(getTextContent(buffer)) + 1
        rest == moveCursorTimes(buffer, c, d, w, positions)
    IN  /\ cursor \in ValidCursors(buffer)
        /\ cursor # c =>
             IF d = "up" THEN getOffset(buffer, cursor) < getOffset(buffer, c)
             ELSE getOffset(buffer, cursor) > getOffset(buffer, c)
        /\ cursor = c =>
             IF d = "up" THEN OnFirstRow(buffer, c, w) ELSE OnLastRow(buffer, c, w)
        /\ moveCursor(buffer, rest, d, w) = rest

\* down with width 2 from the end of the first row of a wrapped word moved to the end
\* of the line, from where a further down is a no-op
C35_Witness ==
  /\ OpAt(1, "moveCursor")
  /\ hist[1].arg = [direction |-> "down", width |-> << 2 >>]
  /\ buffer.lines = << << "a", "a", "a" >> >>
  /\ hist[1].pre.cursor = [line |-> 0, column |-> 1]
  /\ cursor = [line |-> 0, column |-> 3]
  /\ moveCursor(buffer, cursor, "down", << 2 >>) = cursor

\* session x is session s after an editing action that changed nothing on screen but
\* was recorded: buffer and cursor are those of s, the state of s is the newest entry
\* of undoStack (after the snapshot of a batch that was pending, the stack cut to
\* historyLimit), redoStack is empty, and an undo or a redo next shows the same text
RecordedNoOp(s, x) ==
  LET base == IF s.startState # << >> THEN Append(s.undoStack, s.startState[1])
              ELSE s.undoStack
  IN  /\ View(x) = View(s)
      /\ x.undoStack = NewestUpTo(Append(base, View(s)), historyLimit)
      /\ x.undoStack[Len(x.undoStack)] = View(s)
      /\ x.redoStack = << >>
      /\ View(undo(x)) = View(x)
      /\ redo(x) = x

(***************************************************************************)
(* C36: an editing action that changes nothing (delete at (0,0),           *)
(* deleteForward at the end of the last line, insert of the empty string)  *)
(* leaves buffer and cursor unchanged but still appends the current state  *)
(* to undoStack (evicting the oldest entry at the limit) and empties       *)
(* redoStack, so the next undo has no visible effect and previously undone *)
(* states can no longer be redone.  Stated of the three actions in every   *)
(* state where an operation can run, and of the delete and deleteForward   *)
(* recorded last in the trace.                                             *)
(***************************************************************************)
C36_NoOpEditsAreRecorded ==
  LET atStart(s) == s.cursor.line = 0 /\ s.cursor.column = 0
      atEnd(s) == /\ s.cursor.line = Len(s.buffer.lines) - 1
                  /\ s.cursor.column = Len(s.buffer.lines[s.cursor.line + 1])
  IN  /\ CanStep =>
           /\ atStart(Session) => RecordedNoOp(Session, delete(Session))
           /\ atEnd(Session) => RecordedNoOp(Session, deleteForward(Session))
           /\ RecordedNoOp(Session, insert(Session, << >>))
      /\ (LastOp("delete") /\ atStart(hist[Len(hist)].pre)) =>
           RecordedNoOp(hist[Len(hist)].pre, Session)
      /\ (LastOp("deleteForward") /\ atEnd(hist[Len(hist)].pre)) =>
           RecordedNoOp(hist[Len(hist)].pre, Session)

\* delete ran at (0, 0) of an empty buffer right after an undo: the undone state can no
\* longer be redone, and undoStack holds the empty buffer
C36_Witness ==
  /\ LastOp("delete")
  /\ hist[Len(hist)].pre.cursor = [line |-> 0, column |-> 0]
  /\ hist[Len(hist)].pre.redoStack # << >>
  /\ OpAt(Len(hist) - 1, "undo")
  /\ redoStack = << >>
  /\ undoStack = << View(hist[Len(hist)].pre) >>
  /\ View(Session) = View(hist[Len(hist)].pre)

(***************************************************************************)
(* C37: for every valid buffer and cursor, insertNewLine(buffer, cursor)   *)
(* returns the same buffer and cursor as insertText(buffer, cursor, text)  *)
(* where text is a single newline character: the current line is split at  *)
(* the column and the cursor is at (line + 1, 0).  Stated of every         *)
(* recorded insertNewLine call and of every recorded insertText call with  *)
(* a single newline.                                                       *)
(***************************************************************************)
C37_NewLineIsInsertOfNewline ==
  /\ OpAt(1, "insertNewLine") =>
       LET b == hist[1].pre.buffer
           c == hist[1].pre.cursor
           l == c.line + 1
       IN  /\ [buffer |-> buffer, cursor |-> cursor] = insertText(b, c, << NL >>)
           /\ Len(buffer.lines) = Len(b.lines) + 1
           /\ buffer.lines[l] \o buffer.lines[l + 1] = b.lines[l]
           /\ Len(buffer.lines[l]) = c.column
           /\ \A i \in 1..Len(b.lines) :
                i # l => buffer.lines[IF i < l THEN i ELSE i + 1] = b.lines[i]
           /\ cursor = [line |-> c.line + 1, column |-> 0]
  /\ (OpAt(1, "insertText") /\ hist[1].arg = << NL >>) =>
       [buffer |-> buffer, cursor |-> cursor] =
         insertNewLine(hist[1].pre.buffer, hist[1].pre.cursor)

\* insertNewLine split the first of two lines in the middle
C37_Witness ==
  /\ OpAt(1, "insertNewLine")
  /\ hist[1].pre.buffer.lines = << << "a", SP >>, << >> >>
  /\ hist[1].pre.cursor = [line |-> 0, column |-> 1]
  /\ buffer.lines = << << "a" >>, << SP >>, << >> >>
  /\ cursor = [line |-> 1, column |-> 0]
  /\ insertText(hist[1].pre.buffer, hist[1].pre.cursor, << NL >>).buffer = buffer

(***************************************************************************)
(* C38: createBuffer and getTextContent are mutually inverse on valid      *)
(* data: for every string t, getTextContent(createBuffer(t)) = t, and for  *)
(* every buffer b with at least one line and no newline inside any line,   *)
(* createBuffer(getTextContent(b)) = b (the single-empty-line buffer       *)
(* corresponds to the empty string); hence the buffer the component        *)
(* rebuilds from the current value on each render has the same lines as    *)
(* the session's buffer and the session's cursor is valid in it.  The      *)
(* strings are those the initial buffers are created from; the buffers are *)
(* those of every state, before and after an operation.                    *)
(***************************************************************************)
C38_BufferTextInverse ==
  /\ hist = << >> =>
       /\ \A t \in Strings(MaxText) : getTextContent(createBuffer(t)) = t
       /\ \E t \in Strings(MaxText) : buffer = createBuffer(t)
  /\ createBuffer(getTextContent(buffer)) = buffer
  /\ createBuffer(<< >>) = [lines |-> << << >> >>]
  /\ getTextContent([lines |-> << << >> >>]) = << >>
  /\ cursor \in ValidCursors(createBuffer(getTextContent(buffer)))

\* insertNewLine at the end of a left an empty last line: the value is a followed by a
\* newline, and the buffer rebuilt from it has the two lines
C38_Witness ==
  /\ OpAt(1, "insertNewLine")
  /\ buffer.lines = << << "a" >>, << >> >>
  /\ cursor = [line |-> 1, column |-> 0]
  /\ getTextContent(buffer) = << "a", NL >>
  /\ createBuffer(<< "a", NL >>) = buffer

=============================================================================
